---- MODULE Spec2Model ----
(***************************************************************************)
(* A model of the imaging library's work partitioner and resize engine.   *)
(*                                                                         *)
(*   - parallel(dataSize, fn) of parallel.go: workers claim chunks of the  *)
(*     range from one shared counter with an atomic fetch-and-add;         *)
(*   - parallel(start, stop, fn) of colormods.go: workers drain a closed,  *)
(*     pre-filled channel of indices;                                      *)
(*   - Resize / resizeHorizontal / resizeVertical / resizeNearest of       *)
(*     resample.go, as far as image geometry and write sets go.            *)
(***************************************************************************)
EXTENDS Bags, FiniteSets, Integers, Naturals, Sequences, TLC

(***************************************************************************)
(* Bounds of the model.                                                    *)
(***************************************************************************)
MaxData == 3

MaxProcs == 3

MaxDim == 2

(* Largest side of a source image, and of a requested box, for Fit and Thumbnail. *)
MaxSide == 4

(* Largest number of pixels of a source image whose pixels are modelled.   *)
MaxPixels == 4

(* Largest width and height of a nearest-neighbour result.                *)
MaxNear == 49

(* Largest source and destination size of a resampling pass.               *)
MaxWin == 16

(* Largest number of pixels of a scanned image. *)
MaxScanPixels == 4

(* parallel.go:21 - each worker is meant to handle about 100 chunks.       *)
ChunksPerWorker == 100

(* The smallest range for which two workers get chunks of two indices,     *)
(* plus one index so that the last chunk is a clamped one.                 *)
LargeData == 2 * 2 * ChunksPerWorker + 1

Workers == 1..MaxProcs

Min2(a, b) == IF a < b THEN a ELSE b

Max2(a, b) == IF a > b THEN a ELSE b

VARIABLES
    (* inputs of one call of parallel(dataSize, fn) *)
    dataSize,       \* the range size handed to parallel
    numProcs,       \* runtime.GOMAXPROCS(0)
    enabled,        \* the package variable parallelizationEnabled
    fnKind,         \* which fn is run: "log", "mark", "hpass" (resizeHorizontal) or "vpass" (resizeVertical)
    otherDim,       \* for the resize passes, the size of the axis that is not partitioned
    (* locals of parallel *)
    pc,             \* position of the caller: "start", "seq", "spawn", "wait", "done"
    numGoroutines,
    partSize,
    spawned,        \* number of go statements executed so far (the loop variable p)
    idx,            \* the shared counter
    wg,             \* the WaitGroup counter
    (* the worker goroutines *)
    wpc,            \* worker position: "none", "claim", "fn", "exit", "done"
    wStart,         \* partStart of the chunk a worker holds
    wEnd,           \* partEnd of the chunk a worker holds
    (* what the fn invocations did *)
    calls,          \* bag of <<thread, partStart, partEnd>>, one copy per fn invocation
    dst,            \* destination buffer: value of every location
    owner,          \* owner[b]: the partStarts of the invocations that wrote location b, in order
    (* one call of the channel-based parallel(start, stop, fn) of colormods.go *)
    cStart,         \* argument start
    cStop,          \* argument stop
    cMaxProcs,      \* runtime.GOMAXPROCS(0)
    cpc,            \* position of the caller: "idle", "start", "spawn", "wait", "done"
    procs,          \* the local procs, after the cap
    c,              \* the buffered channel: the indices not yet received
    cClosed,        \* close(c) has been executed
    cSpawned,       \* the loop variable i of the spawn loop
    cwg,            \* the WaitGroup counter
    cwpc,           \* worker position: "none", "recv" (inside fn, ranging over c), "done"
    recvBy,         \* recvBy[i]: the workers that received index i, in order
    fnCalls,        \* number of fn invocations started
    (* one call of Resize, Fit or Thumbnail *)
    rImg,           \* the source image
    rWidth,         \* argument width
    rHeight,        \* argument height
    rSupport2,      \* twice filter.Support (0 for NearestNeighbor, 1 for Box, ...)
    rpc,            \* "idle", "call", "done", "written"; "nearest", "resample", "window"
    rOut,           \* the image returned
    rOp,            \* the function that was called: "none", "Resize", "Fit", "Thumbnail", ...
    rTmp,           \* Thumbnail's local tmp (the resized image before the crop)
    rCrop,          \* the rectangle Thumbnail's CropCenter hands to Crop, or Crop's argument
    rSigma,         \* argument sigma of Blur and Sharpen
    rWritten,       \* the pixel buffers stored into so far: "src" (the caller's image), "new", "dst"
    rWin,           \* a resampling pass: the filter, twice its Support, a destination
                    \* coordinate d, its window [start, end] and len(weights)
    (* one call of Clone, Resize, Fit, Blur or Sharpen on an image with its pixels *)
    pImg,           \* the source image: bounds, Stride and Pix
    pWidth,         \* argument width
    pHeight,        \* argument height
    pFilter,        \* argument filter: "NearestNeighbor" or "Box"
    pSigma,         \* argument sigma of Blur and Sharpen, in hundredths
    ppc,            \* "idle", "call", "done", "back", "panic"
    pOp,            \* the function that was called
    pOut,           \* the image returned
    (* one call of scanner.scan *)
    sImg,           \* the scanner's image: encoding, bounds, strides and sample planes
    sRect,          \* the arguments <<x1, y1, x2, y2>>, relative to the bounds' origin
    sDst,           \* the caller's buffer dst
    spc             \* "idle", "call", "done"

parVars == <<dataSize, numProcs, enabled, fnKind, otherDim, pc, numGoroutines, partSize,
             spawned, idx, wg, wpc, wStart, wEnd, calls, dst, owner>>

chanVars == <<cStart, cStop, cMaxProcs, cpc, procs, c, cClosed, cSpawned, cwg, cwpc,
              recvBy, fnCalls>>

rszVars == <<rImg, rWidth, rHeight, rSupport2, rpc, rOut, rOp, rTmp, rCrop, rSigma, rWritten,
            rWin>>

pxVars == <<pImg, pWidth, pHeight, pFilter, pSigma, ppc, pOp, pOut>>

scVars == <<sImg, sRect, sDst, spc>>

vars == <<parVars, chanVars, rszVars, pxVars, scVars>>

(***************************************************************************)
(* parallel.go                                                             *)
(***************************************************************************)

(* Variants of NumGoroutines: one that does not look at the flag, one that *)
(* caps the number of goroutines at the range size.                        *)
NumGoroutinesIgnoringFlag(en, nprocs) == IF nprocs > 1 THEN nprocs ELSE 1

NumGoroutinesCapped(en, nprocs) ==
    IF en /\ nprocs > 1 THEN Max2(1, Min2(nprocs, dataSize)) ELSE 1

(* parallel.go:14-26: the number of goroutines used for one call.          *)
NumGoroutines(en, nprocs) == IF en /\ nprocs > 1 THEN nprocs ELSE 1

(* parallel.go:15-26: the chunk size.                                      *)
PartSize(en, nprocs, size) ==
    IF en /\ nprocs > 1
    THEN Max2(size \div (nprocs * ChunksPerWorker), 1)
    ELSE size

(* Variant of AtomicAdd that adds one instead of the chunk size.           *)
AtomicAddOne(counter, delta) == counter + 1

(* parallel.go:39: atomic.AddUint64(&idx, uint64(partSize)) returns the new value. *)
AtomicAdd(counter, delta) == counter + delta

(* Variant of PartStart that takes the returned value for the old one.     *)
PartStartNoSub(newIdx, size) == newIdx

(* parallel.go:39: partStart from the value the fetch-and-add returned.    *)
PartStart(newIdx, size) == newIdx - size

(* Variant of RangeExhausted that leaves the loop one index early.         *)
RangeExhaustedEarly(partStart, size) == partStart >= size - 1

(* parallel.go:40: the exit test of the worker loop.                       *)
RangeExhausted(partStart, size) == partStart >= size

(* parallel.go:43-46: partEnd, clamped to the range.                       *)
PartEnd(partStart, psize, size) ==
    IF partStart + psize > size THEN size ELSE partStart + psize

(* Variant of WgDone that forgets to count the worker out.                 *)
WgDoneMissing(counter) == counter

(* parallel.go:37: wg.Done() *)
WgDone(counter) == counter - 1

(* Variant of WaitReturns that does not wait for the last worker.          *)
WaitReturnsEarly(counter) == counter <= 1

(* parallel.go:52: wg.Wait() returns when the counter is zero.             *)
WaitReturns(counter) == counter = 0

(***************************************************************************)
(* The fn arguments.  "log" writes nothing (its invocations are only      *)
(* logged in calls); "mark" stores a value at every index of its range;    *)
(* "hpass" and "vpass" are the closures of resizeHorizontal and            *)
(* resizeVertical, for a destination of dstW x dstH pixels with Stride     *)
(* 4*dstW (image.NewNRGBA).                                                *)
(***************************************************************************)
DstW == IF fnKind = "hpass" THEN dataSize ELSE otherDim

DstH == IF fnKind = "vpass" THEN dataSize ELSE otherDim

DstStride == 4 * DstW

(* Variant of DstOffset that forgets the four bytes per pixel.             *)
DstOffsetNoScale(dstX, dstY, stride) == dstY * stride + dstX

(* resample.go:124 and resample.go:192: j := dstY*dst.Stride + dstX*4      *)
DstOffset(dstX, dstY, stride) == dstY * stride + dstX * 4

LocationsOf(kind, size, other) ==
    CASE kind = "log"  -> {}
      [] kind = "mark" -> 0..(size - 1)
      [] OTHER         -> 0..(4 * size * other - 1)

Locations == LocationsOf(fnKind, dataSize, otherDim)

(* The value fn stores at a location: a function of the location alone.    *)
PixVal(loc) == (loc % 3) + 1

(* The locations one invocation fn(partStart, partEnd) writes.             *)
WriteSet(kind, partStart, partEnd) ==
    CASE kind = "log"   -> {}
      [] kind = "mark"  -> partStart..(partEnd - 1)
      [] kind = "hpass" ->
            (* resample.go:87, 108, 124-128 *)
            { DstOffset(dstX, dstY, DstStride) + ch :
                dstX \in partStart..(partEnd - 1), dstY \in 0..(DstH - 1), ch \in 0..3 }
      [] kind = "vpass" ->
            (* resample.go:155, 176, 192-196 *)
            { DstOffset(dstX, dstY, DstStride) + ch :
                dstY \in partStart..(partEnd - 1), dstX \in 0..(DstW - 1), ch \in 0..3 }

(* The effect of one invocation fn(partStart, partEnd) run by thread who.  *)
RunFn(who, partStart, partEnd) ==
    LET ws == WriteSet(fnKind, partStart, partEnd) IN
    /\ calls' = calls (+) SetToBag({<<who, partStart, partEnd>>})
    /\ dst' = [b \in DOMAIN dst |-> IF b \in ws THEN PixVal(b) ELSE dst[b]]
    /\ owner' = [b \in DOMAIN owner |->
                    IF b \in ws THEN Append(owner[b], partStart) ELSE owner[b]]

(* Calls with the marking fn.                                              *)
MarkConfigs ==
    [kind : {"mark"}, size : 0..MaxData, other : {1}, procs : 1..MaxProcs, en : BOOLEAN]

(* Calls made by resizeHorizontal and resizeVertical.                      *)
PassConfigs ==
    [kind : {"hpass", "vpass"}, size : 1..MaxDim, other : 1..MaxDim,
     procs : 1..MaxProcs, en : BOOLEAN]

ParConfigs == MarkConfigs \cup PassConfigs

(* Ranges large enough for chunks of more than one index.                  *)
LargeConfigs ==
    [kind : {"log"}, size : {LargeData}, other : {1}, procs : 1..2, en : BOOLEAN]

ParInitFrom(configs) ==
    \E cfg \in configs :
        /\ dataSize = cfg.size
        /\ numProcs = cfg.procs
        /\ enabled = cfg.en
        /\ fnKind = cfg.kind
        /\ otherDim = cfg.other
        /\ pc = "start"
        /\ numGoroutines = 0
        /\ partSize = 0
        /\ spawned = 0
        /\ idx = 0
        /\ wg = 0
        /\ wpc = [w \in Workers |-> "none"]
        /\ wStart = [w \in Workers |-> 0]
        /\ wEnd = [w \in Workers |-> 0]
        /\ calls = EmptyBag
        /\ dst = [b \in LocationsOf(cfg.kind, cfg.size, cfg.other) |-> 0]
        /\ owner = [b \in LocationsOf(cfg.kind, cfg.size, cfg.other) |-> << >>]

ParInit == ParInitFrom(ParConfigs)

ParInitLarge == ParInitFrom(ParConfigs \cup LargeConfigs)

(* parallel.go:14-33: compute numGoroutines and partSize, then either go   *)
(* sequential or set up the WaitGroup and the counter.                     *)
ParStart ==
    /\ pc = "start"
    /\ numGoroutines' = NumGoroutines(enabled, numProcs)
    /\ partSize' = PartSize(enabled, numProcs, dataSize)
    /\ IF numGoroutines' = 1
       THEN /\ pc' = "seq"
            /\ UNCHANGED <<wg, idx>>
       ELSE /\ pc' = "spawn"
            /\ wg' = numGoroutines'
            /\ idx' = 0
    /\ UNCHANGED <<dataSize, numProcs, enabled, fnKind, otherDim, spawned, wpc, wStart, wEnd,
                   calls, dst, owner, chanVars, rszVars, pxVars, scVars>>

(* parallel.go:29: fn(0, dataSize) on the calling thread.                  *)
ParSeqFn ==
    /\ pc = "seq"
    /\ RunFn("caller", 0, dataSize)
    /\ pc' = "done"
    /\ UNCHANGED <<dataSize, numProcs, enabled, fnKind, otherDim, numGoroutines, partSize,
                   spawned, idx, wg, wpc, wStart, wEnd, chanVars, rszVars, pxVars, scVars>>

(* parallel.go:35-50: one iteration of the spawn loop (one go statement).  *)
ParSpawn ==
    /\ pc = "spawn"
    /\ IF spawned < numGoroutines
       THEN /\ wpc' = [wpc EXCEPT ![spawned + 1] = "claim"]
            /\ spawned' = spawned + 1
            /\ pc' = pc
       ELSE /\ pc' = "wait"
            /\ UNCHANGED <<wpc, spawned>>
    /\ UNCHANGED <<dataSize, numProcs, enabled, fnKind, otherDim, numGoroutines, partSize,
                   idx, wg, wStart, wEnd, calls, dst, owner, chanVars, rszVars, pxVars, scVars>>

(* parallel.go:39-46: claim a chunk with the fetch-and-add, or leave the loop. *)
WorkerClaim(w) ==
    /\ wpc[w] = "claim"
    /\ idx' = AtomicAdd(idx, partSize)
    /\ LET partStart == PartStart(idx', partSize) IN
       IF RangeExhausted(partStart, dataSize)
       THEN /\ wpc' = [wpc EXCEPT ![w] = "exit"]
            /\ UNCHANGED <<wStart, wEnd>>
       ELSE /\ wpc' = [wpc EXCEPT ![w] = "fn"]
            /\ wStart' = [wStart EXCEPT ![w] = partStart]
            /\ wEnd' = [wEnd EXCEPT ![w] = PartEnd(partStart, partSize, dataSize)]
    /\ UNCHANGED <<dataSize, numProcs, enabled, fnKind, otherDim, pc, numGoroutines, partSize,
                   spawned, wg, calls, dst, owner, chanVars, rszVars, pxVars, scVars>>

(* parallel.go:47: fn(partStart, partEnd) in the worker.                   *)
WorkerFn(w) ==
    /\ wpc[w] = "fn"
    /\ RunFn("worker", wStart[w], wEnd[w])
    /\ wpc' = [wpc EXCEPT ![w] = "claim"]
    /\ UNCHANGED <<dataSize, numProcs, enabled, fnKind, otherDim, pc, numGoroutines, partSize,
                   spawned, idx, wg, wStart, wEnd, chanVars, rszVars, pxVars, scVars>>

(* parallel.go:37: the deferred wg.Done() when the goroutine returns.      *)
WorkerDone(w) ==
    /\ wpc[w] = "exit"
    /\ wg' = WgDone(wg)
    /\ wpc' = [wpc EXCEPT ![w] = "done"]
    /\ UNCHANGED <<dataSize, numProcs, enabled, fnKind, otherDim, pc, numGoroutines, partSize,
                   spawned, idx, wStart, wEnd, calls, dst, owner, chanVars, rszVars, pxVars, scVars>>

(* parallel.go:52: wg.Wait() returns and parallel returns to its caller.   *)
ParWait ==
    /\ pc = "wait"
    /\ WaitReturns(wg)
    /\ pc' = "done"
    /\ UNCHANGED <<dataSize, numProcs, enabled, fnKind, otherDim, numGoroutines, partSize,
                   spawned, idx, wg, wpc, wStart, wEnd, calls, dst, owner, chanVars, rszVars, pxVars, scVars>>

Worker(w) == WorkerClaim(w) \/ WorkerFn(w) \/ WorkerDone(w)

Caller == ParStart \/ ParSeqFn \/ ParSpawn \/ ParWait

(* No call of parallel(dataSize, fn) is under way.                         *)
ParIdle ==
    /\ dataSize = 0
    /\ numProcs = 1
    /\ enabled = TRUE
    /\ fnKind = "log"
    /\ otherDim = 1
    /\ pc = "idle"
    /\ numGoroutines = 0
    /\ partSize = 0
    /\ spawned = 0
    /\ idx = 0
    /\ wg = 0
    /\ wpc = [w \in Workers |-> "none"]
    /\ wStart = [w \in Workers |-> 0]
    /\ wEnd = [w \in Workers |-> 0]
    /\ calls = EmptyBag
    /\ dst = << >>
    /\ owner = << >>

(***************************************************************************)
(* colormods.go: parallel(start, stop, fn) over a channel of indices, with *)
(* the fn of TestParallel, which ranges over the channel until it is       *)
(* closed and drained.                                                     *)
(***************************************************************************)

(* colormods.go:70 *)
ChanCount(start, stop) == stop - start

(* colormods.go:75-78: the number of workers, capped at the number of indices. *)
ChanProcs(maxprocs, count) == IF maxprocs > count THEN count ELSE maxprocs

(* Variant of ChanFill that stops one index short.                         *)
ChanFillShort(start, stop) == [k \in 1..(stop - start - 1) |-> start + k - 1]

(* colormods.go:80-83: the channel after the fill loop.                    *)
ChanFill(start, stop) == [k \in 1..(stop - start) |-> start + k - 1]

(* colormods.go:94: wg.Wait() returns when the counter is zero.            *)
ChanWaitReturns(counter) == counter = 0

ChanInit ==
    /\ cStart \in 0..1
    /\ cStop \in (cStart - 1)..(cStart + MaxData)
    /\ cMaxProcs \in 1..MaxProcs
    /\ cpc = "start"
    /\ procs = 0
    /\ c = << >>
    /\ cClosed = FALSE
    /\ cSpawned = 0
    /\ cwg = 0
    /\ cwpc = [w \in Workers |-> "none"]
    /\ recvBy = [i \in cStart..(cStop - 1) |-> << >>]
    /\ fnCalls = 0

ChanIdle ==
    /\ cStart = 0
    /\ cStop = 0
    /\ cMaxProcs = 1
    /\ cpc = "idle"
    /\ procs = 0
    /\ c = << >>
    /\ cClosed = FALSE
    /\ cSpawned = 0
    /\ cwg = 0
    /\ cwpc = [w \in Workers |-> "none"]
    /\ recvBy = << >>
    /\ fnCalls = 0

(* colormods.go:70-84: return at once on an empty range, else cap procs,   *)
(* fill the channel and close it.                                          *)
ChanStart ==
    /\ cpc = "start"
    /\ IF ChanCount(cStart, cStop) < 1
       THEN /\ cpc' = "done"
            /\ UNCHANGED <<procs, c, cClosed>>
       ELSE /\ procs' = ChanProcs(cMaxProcs, ChanCount(cStart, cStop))
            /\ c' = ChanFill(cStart, cStop)
            /\ cClosed' = TRUE
            /\ cpc' = "spawn"
    /\ UNCHANGED <<cStart, cStop, cMaxProcs, cSpawned, cwg, cwpc, recvBy, fnCalls,
                   parVars, rszVars, pxVars, scVars>>

(* colormods.go:87-93: one iteration of the spawn loop: wg.Add(1) and a go *)
(* statement whose goroutine calls fn(c).                                  *)
ChanSpawn ==
    /\ cpc = "spawn"
    /\ IF cSpawned < procs
       THEN /\ cwg' = cwg + 1
            /\ cwpc' = [cwpc EXCEPT ![cSpawned + 1] = "recv"]
            /\ fnCalls' = fnCalls + 1
            /\ cSpawned' = cSpawned + 1
            /\ cpc' = cpc
       ELSE /\ cpc' = "wait"
            /\ UNCHANGED <<cwg, cwpc, fnCalls, cSpawned>>
    /\ UNCHANGED <<cStart, cStop, cMaxProcs, procs, c, cClosed, recvBy, parVars, rszVars, pxVars, scVars>>

(* utils_test.go:40-42: one iteration of "for i := range is": receive the  *)
(* head of the channel and mark it.                                        *)
ChanRecv(w) ==
    /\ cwpc[w] = "recv"
    /\ c # << >>
    /\ recvBy' = [recvBy EXCEPT ![Head(c)] = Append(@, w)]
    /\ c' = Tail(c)
    /\ UNCHANGED <<cStart, cStop, cMaxProcs, cpc, procs, cClosed, cSpawned, cwg, cwpc,
                   fnCalls, parVars, rszVars, pxVars, scVars>>

(* utils_test.go:40, colormods.go:90-91: the range loop ends on the closed *)
(* and drained channel, fn returns and the deferred wg.Done() runs.        *)
ChanFnReturn(w) ==
    /\ cwpc[w] = "recv"
    /\ c = << >>
    /\ cClosed
    /\ cwpc' = [cwpc EXCEPT ![w] = "done"]
    /\ cwg' = cwg - 1
    /\ UNCHANGED <<cStart, cStop, cMaxProcs, cpc, procs, c, cClosed, cSpawned, recvBy,
                   fnCalls, parVars, rszVars, pxVars, scVars>>

(* colormods.go:94: wg.Wait() returns and parallel returns.                *)
ChanWait ==
    /\ cpc = "wait"
    /\ ChanWaitReturns(cwg)
    /\ cpc' = "done"
    /\ UNCHANGED <<cStart, cStop, cMaxProcs, procs, c, cClosed, cSpawned, cwg, cwpc,
                   recvBy, fnCalls, parVars, rszVars, pxVars, scVars>>

(***************************************************************************)
(* resample.go: Resize and the images it builds.  An image is its bounds   *)
(* (Min and Max corner), whether its dynamic type is *image.NRGBA, and the *)
(* pixel buffer it uses ("src": the caller's, "new": freshly allocated).   *)
(***************************************************************************)
Dx(img) == img.maxX - img.minX

Dy(img) == img.maxY - img.minY

(* &image.NRGBA{} *)
EmptyImage == [minX |-> 0, minY |-> 0, maxX |-> 0, maxY |-> 0, nrgba |-> TRUE, buf |-> "new"]

(* image.NewNRGBA(image.Rect(x0, y0, x1, y1)); image.Rect orders the corners. *)
NewNRGBA(x0, y0, x1, y1) ==
    [minX |-> Min2(x0, x1), minY |-> Min2(y0, y1),
     maxX |-> Max2(x0, x1), maxY |-> Max2(y0, y1), nrgba |-> TRUE, buf |-> "new"]

(* effects_test.go:491-496: Clone allocates srcBounds.Sub(srcBounds.Min).  *)
Clone(img) == NewNRGBA(0, 0, Dx(img), Dy(img))

(* helpers.go:222-230 *)
toNRGBA(img) ==
    IF img.minX = 0 /\ img.minY = 0 /\ img.nrgba THEN img ELSE Clone(img)

(* Variant of FloorHalfUp that drops the + 0.5.                            *)
FloorNoHalf(num, den) == num \div den

(* math.Floor(num/den + 0.5) for num >= 0 and den > 0.                     *)
FloorHalfUp(num, den) == (2 * num + den) \div (2 * den)

(* resample.go:69-77, 134 *)
resizeHorizontal(src, width) == NewNRGBA(0, 0, width, src.maxY)

(* Variant of resizeVertical that takes the source height for the width.   *)
resizeVerticalSwapped(src, height) == NewNRGBA(0, 0, src.maxY, height)

(* resample.go:137-145, 202 *)
resizeVertical(src, height) == NewNRGBA(0, 0, src.maxX, height)

(* resample.go:206-213, 238 *)
resizeNearest(src, width, height) == NewNRGBA(0, 0, width, height)

(* resample.go:19-67 *)
Resize(img, width, height, support2) ==
    IF width < 0 \/ height < 0 THEN EmptyImage
    ELSE IF width = 0 /\ height = 0 THEN EmptyImage
    ELSE
      LET src == toNRGBA(img)
          srcW == src.maxX
          srcH == src.maxY
      IN
      IF srcW <= 0 \/ srcH <= 0 THEN EmptyImage
      ELSE
        LET dstW == IF width = 0 THEN Max2(1, FloorHalfUp(height * srcW, srcH)) ELSE width
            dstH == IF height = 0 THEN Max2(1, FloorHalfUp(dstW * srcH, srcW)) ELSE height
        IN
        IF support2 <= 0 THEN resizeNearest(src, dstW, dstH)
        ELSE
          LET dst1 == IF srcW # dstW THEN resizeHorizontal(src, dstW) ELSE src
          IN  IF srcH # dstH THEN resizeVertical(dst1, dstH) ELSE dst1

(* Go's integer division, and int(x) of a float quotient: truncation      *)
(* toward zero.                                                            *)
GoDiv(a, b) ==
    IF (a >= 0) = (b > 0) THEN (IF a >= 0 THEN a \div b ELSE (-a) \div (-b))
    ELSE -((IF a >= 0 THEN a ELSE -a) \div (IF b > 0 THEN b ELSE -b))

(* image.Rectangle; image.Rect orders the corners.                         *)
Rect(x0, y0, x1, y1) ==
    [minX |-> Min2(x0, x1), minY |-> Min2(y0, y1),
     maxX |-> Max2(x0, x1), maxY |-> Max2(y0, y1)]

(* image.ZR *)
ZR == [minX |-> 0, minY |-> 0, maxX |-> 0, maxY |-> 0]

Bounds(img) == [minX |-> img.minX, minY |-> img.minY, maxX |-> img.maxX, maxY |-> img.maxY]

(* rect.Sub(p) *)
RectSub(r, px, py) ==
    [minX |-> r.minX - px, minY |-> r.minY - py, maxX |-> r.maxX - px, maxY |-> r.maxY - py]

RectEmpty(r) == r.minX >= r.maxX \/ r.minY >= r.maxY

(* r.Intersect(t) *)
Intersect(r, t) ==
    LET u == [minX |-> Max2(r.minX, t.minX), minY |-> Max2(r.minY, t.minY),
              maxX |-> Min2(r.maxX, t.maxX), maxY |-> Min2(r.maxY, t.maxY)]
    IN  IF RectEmpty(u) THEN ZR ELSE u

(* NRGBA.SubImage: the part of r inside the image, sharing the    *)
(* pixel buffer; an empty intersection gives &image.NRGBA{}.               *)
SubImage(src, r) ==
    LET u == Intersect(r, Bounds(src))
    IN  IF RectEmpty(u) THEN EmptyImage
        ELSE [minX |-> u.minX, minY |-> u.minY, maxX |-> u.maxX, maxY |-> u.maxY,
              nrgba |-> TRUE, buf |-> src.buf]

(* crop.go:9-14 *)
Crop(img, rect) == Clone(SubImage(toNRGBA(img), RectSub(rect, img.minX, img.minY)))

(* Variant of CropCenterRect that anchors the rectangle at the centre      *)
(* instead of centring it.                                                 *)
CropCenterRectFromCenter(img, width, height) ==
    LET centerX == img.minX + GoDiv(Dx(img), 2)
        centerY == img.minY + GoDiv(Dy(img), 2)
    IN  Rect(centerX, centerY, centerX + width, centerY + height)

(* crop.go:21-35: the rectangle CropCenter hands to Crop.                  *)
CropCenterRect(img, width, height) ==
    LET centerX == img.minX + GoDiv(Dx(img), 2)
        centerY == img.minY + GoDiv(Dy(img), 2)
        x0 == centerX - GoDiv(width, 2)
        y0 == centerY - GoDiv(height, 2)
    IN  Rect(x0, y0, x0 + width, y0 + height)

(* crop.go:18-36 *)
CropCenter(img, width, height) == Crop(img, CropCenterRect(img, width, height))

(* Variant of NonPositive that rejects a zero only.                        *)
NonPositiveZeroOnly(width, height) == width = 0 \/ height = 0

(* resample.go:254 and 298: maxW <= 0 || maxH <= 0.                        *)
NonPositive(width, height) == width <= 0 \/ height <= 0

(* resample.go:270 and 312: srcAspectRatio > maxAspectRatio, the quotients *)
(* float64(srcW)/float64(srcH) and float64(w)/float64(h) compared exactly. *)
WiderThan(srcW, srcH, w, h) == srcW * h > w * srcH

(* Variant of FitsBox that never takes the shortcut.                       *)
FitsBoxNever(srcW, srcH, maxW, maxH) == FALSE

(* resample.go:266: srcW <= maxW && srcH <= maxH.                          *)
FitsBox(srcW, srcH, maxW, maxH) == srcW <= maxW /\ srcH <= maxH

(* resample.go:251-283 *)
Fit(img, width, height, support2) ==
    IF NonPositive(width, height) THEN EmptyImage
    ELSE
      LET srcW == Dx(img)
          srcH == Dy(img)
      IN
      IF srcW <= 0 \/ srcH <= 0 THEN EmptyImage
      ELSE IF FitsBox(srcW, srcH, width, height) THEN Clone(img)
      ELSE
        LET wider == WiderThan(srcW, srcH, width, height)
            newW == IF wider THEN width ELSE GoDiv(height * srcW, srcH)
            newH == IF wider THEN GoDiv(width * srcH, srcW) ELSE height
        IN  Resize(img, newW, newH, support2)

(* resample.go:311-316: Thumbnail's local tmp.                             *)
ThumbnailTmp(img, width, height, support2) ==
    IF WiderThan(Dx(img), Dy(img), width, height)
    THEN Resize(img, 0, height, support2)
    ELSE Resize(img, width, 0, support2)

(* resample.go:295-321 *)
Thumbnail(img, width, height, support2) ==
    IF NonPositive(width, height) THEN EmptyImage
    ELSE IF Dx(img) <= 0 \/ Dy(img) <= 0 THEN EmptyImage
    ELSE CropCenter(ThumbnailTmp(img, width, height, support2), width, height)

(* Variant of Blur whose positive-sigma result keeps the source's origin.  *)
BlurKeepsOrigin(img, sigma) ==
    IF sigma <= 0 THEN Clone(img) ELSE NewNRGBA(img.minX, img.minY, img.maxX, img.maxY)

(* part_002:111-130, 132-137, 180-185: Blur returns Clone(img) for a       *)
(* non-positive sigma and otherwise the dst of blurVertical, allocated     *)
(* with the bounds (0, 0)-(src.Max) of src = toNRGBA(img).                 *)
Blur(img, sigma) ==
    IF sigma <= 0 THEN Clone(img)
    ELSE LET src == toNRGBA(img) IN NewNRGBA(0, 0, src.maxX, src.maxY)

(* sharpen.go:14-46 *)
Sharpen(img, sigma) ==
    IF sigma <= 0 THEN Clone(img)
    ELSE LET src == toNRGBA(img) IN NewNRGBA(0, 0, src.maxX, src.maxY)

(* part_003:238-268: Paste returns dst := Clone(background).               *)
Paste(background, img) == Clone(background)

(* Variant of PassDst: the pass stores into the image it reads.            *)
PassDstInPlace(src, dstImg) == src.buf

(* resample.go:77, 124-128, 145, 192-196, 213, 232 and part_002:137, 168,  *)
(* 185, 216: a pass over src stores into the Pix of its own dst.           *)
PassDst(src, dstImg) == dstImg.buf

(* The pixel buffers one call stores into.  Clone copies into the image it *)
(* allocates (effects_test.go:496, 512); toNRGBA stores only when it       *)
(* clones; Sharpen stores into its dst (sharpen.go:25, 39) and Paste into  *)
(* its clone of the background (part_003:240, 261); scan stores into the   *)
(* caller's dst (part_001:294-528).                                        *)
Stored(op, img, width, height, support2, sigma, rect) ==
    LET conv(i) == IF toNRGBA(i) = i THEN {} ELSE {Clone(i).buf}
        resz(i, w, h) ==
            IF w < 0 \/ h < 0 \/ (w = 0 /\ h = 0) THEN {}
            ELSE
              LET src == toNRGBA(i)
                  srcW == src.maxX
                  srcH == src.maxY
                  dstW == IF w = 0 THEN Max2(1, FloorHalfUp(h * srcW, srcH)) ELSE w
                  dstH == IF h = 0 THEN Max2(1, FloorHalfUp(dstW * srcH, srcW)) ELSE h
                  dst1 == IF srcW # dstW THEN resizeHorizontal(src, dstW) ELSE src
              IN  conv(i) \cup
                  (IF srcW <= 0 \/ srcH <= 0 THEN {}
                   ELSE IF support2 <= 0
                        THEN {PassDst(src, resizeNearest(src, dstW, dstH))}
                        ELSE (IF srcW # dstW THEN {PassDst(src, dst1)} ELSE {})
                             \cup (IF srcH # dstH
                                   THEN {PassDst(dst1, resizeVertical(dst1, dstH))}
                                   ELSE {}))
        crop(i, r) == conv(i) \cup {Clone(SubImage(toNRGBA(i), RectSub(r, i.minX, i.minY))).buf}
        blur(i) ==
            IF sigma <= 0 THEN {Clone(i).buf}
            ELSE conv(i) \cup {PassDst(toNRGBA(i), Blur(i, sigma)),
                               PassDst(Blur(i, sigma), Blur(i, sigma))}
        degenerate == NonPositive(width, height) \/ Dx(img) <= 0 \/ Dy(img) <= 0
    IN  CASE op = "Resize" -> resz(img, width, height)
          [] op = "Fit" ->
                IF degenerate THEN {}
                ELSE IF FitsBox(Dx(img), Dy(img), width, height) THEN {Clone(img).buf}
                ELSE LET wider == WiderThan(Dx(img), Dy(img), width, height)
                     IN  resz(img, IF wider THEN width ELSE GoDiv(height * Dx(img), Dy(img)),
                                   IF wider THEN GoDiv(width * Dy(img), Dx(img)) ELSE height)
          [] op = "Thumbnail" ->
                IF degenerate THEN {}
                ELSE LET tmp == ThumbnailTmp(img, width, height, support2)
                     IN  (IF WiderThan(Dx(img), Dy(img), width, height)
                          THEN resz(img, 0, height) ELSE resz(img, width, 0))
                         \cup crop(tmp, CropCenterRect(tmp, width, height))
          [] op = "Clone" -> {Clone(img).buf}
          [] op = "Crop" -> crop(img, rect)
          [] op = "CropCenter" -> crop(img, CropCenterRect(img, width, height))
          [] op = "Blur" -> blur(img)
          [] op = "Sharpen" ->
                IF sigma <= 0 THEN {Clone(img).buf}
                ELSE conv(img) \cup blur(img) \cup {PassDst(toNRGBA(img), Sharpen(img, sigma))}
          [] op = "Paste" -> conv(img) \cup {Paste(img, img).buf}
          [] OTHER -> {"dst"}

(* Twice the Support of the catalogued filters: NearestNeighbor 0, Box 0.5, *)
(* Linear 1, the cubic family and Gaussian 2, the windowed sinc family 3.  *)
Supports2 == {0, 1, 2, 4, 6}

Origins == {<<0, 0>>, <<-1, 2>>}

RszInit ==
    /\ \E o \in Origins, w \in 0..MaxDim, h \in 0..MaxDim, t \in BOOLEAN :
          rImg = [minX |-> o[1], minY |-> o[2], maxX |-> o[1] + w, maxY |-> o[2] + h,
                  nrgba |-> t, buf |-> "src"]
    /\ rWidth \in -1..(MaxDim + 1)
    /\ rHeight \in -1..(MaxDim + 1)
    /\ rSupport2 \in Supports2
    /\ rpc = "call"
    /\ rOut = EmptyImage
    /\ rOp = "none"
    /\ rTmp = EmptyImage
    /\ rCrop = ZR
    /\ rSigma = 0
    /\ rWritten = {}
    /\ rWin = [filter |-> "none", support2 |-> 0, axis |-> "none", d |-> 0, start |-> 0,
               end |-> 0, len |-> 0]

(* The arguments of one call of Resize, Fit or Thumbnail.                  *)
GeoInit ==
    /\ \E o \in Origins, w \in 0..MaxSide, h \in 0..MaxSide, t \in BOOLEAN :
          rImg = [minX |-> o[1], minY |-> o[2], maxX |-> o[1] + w, maxY |-> o[2] + h,
                  nrgba |-> t, buf |-> "src"]
    /\ rWidth \in -1..(MaxSide + 1)
    /\ rHeight \in -1..(MaxSide + 1)
    /\ rSupport2 \in {0, 1}
    /\ rpc = "call"
    /\ rOut = EmptyImage
    /\ rOp = "none"
    /\ rTmp = EmptyImage
    /\ rCrop = ZR
    /\ rSigma = 0
    /\ rWritten = {}
    /\ rWin = [filter |-> "none", support2 |-> 0, axis |-> "none", d |-> 0, start |-> 0,
               end |-> 0, len |-> 0]

RszIdle ==
    /\ rImg = EmptyImage
    /\ rWidth = 0
    /\ rHeight = 0
    /\ rSupport2 = 0
    /\ rpc = "idle"
    /\ rOut = EmptyImage
    /\ rOp = "none"
    /\ rTmp = EmptyImage
    /\ rCrop = ZR
    /\ rSigma = 0
    /\ rWritten = {}
    /\ rWin = [filter |-> "none", support2 |-> 0, axis |-> "none", d |-> 0, start |-> 0,
               end |-> 0, len |-> 0]

(* resample.go:19-67: one call of Resize.                                  *)
RszResize ==
    /\ rpc = "call"
    /\ rOut' = Resize(rImg, rWidth, rHeight, rSupport2)
    /\ rpc' = "done"
    /\ rOp' = "Resize"
    /\ rWritten' = Stored("Resize", rImg, rWidth, rHeight, rSupport2, rSigma, rCrop)
    /\ UNCHANGED <<rImg, rWidth, rHeight, rSupport2, rTmp, rCrop, rSigma, rWin,
                   parVars, chanVars, pxVars, scVars>>

(* resample.go:251-283: one call of Fit.                                   *)
RszFit ==
    /\ rpc = "call"
    /\ rOut' = Fit(rImg, rWidth, rHeight, rSupport2)
    /\ rpc' = "done"
    /\ rOp' = "Fit"
    /\ rWritten' = Stored("Fit", rImg, rWidth, rHeight, rSupport2, rSigma, rCrop)
    /\ UNCHANGED <<rImg, rWidth, rHeight, rSupport2, rTmp, rCrop, rSigma, rWin,
                   parVars, chanVars, pxVars, scVars>>

(* resample.go:295-321: one call of Thumbnail.  tmp and the crop rectangle *)
(* exist only when the call gets past its early returns.                   *)
RszThumbnail ==
    /\ rpc = "call"
    /\ rOut' = Thumbnail(rImg, rWidth, rHeight, rSupport2)
    /\ IF NonPositive(rWidth, rHeight) \/ Dx(rImg) <= 0 \/ Dy(rImg) <= 0
       THEN UNCHANGED <<rTmp, rCrop>>
       ELSE LET tmp == ThumbnailTmp(rImg, rWidth, rHeight, rSupport2) IN
            /\ rTmp' = tmp
            /\ rCrop' = CropCenterRect(tmp, rWidth, rHeight)
    /\ rpc' = "done"
    /\ rOp' = "Thumbnail"
    /\ rWritten' = Stored("Thumbnail", rImg, rWidth, rHeight, rSupport2, rSigma, rCrop)
    /\ UNCHANGED <<rImg, rWidth, rHeight, rSupport2, rSigma, rWin,
                   parVars, chanVars, pxVars, scVars>>

(* The end of a call of op that returns out, with the sigma sg and the     *)
(* rectangle rect among its arguments.                                     *)
RszReturn(op, out, sg, rect) ==
    /\ rpc = "call"
    /\ rOut' = out
    /\ rOp' = op
    /\ rSigma' = sg
    /\ rCrop' = rect
    /\ rWritten' = Stored(op, rImg, rWidth, rHeight, rSupport2, sg, rect)
    /\ rpc' = "done"
    /\ UNCHANGED <<rImg, rWidth, rHeight, rSupport2, rTmp, rWin,
                   parVars, chanVars, pxVars, scVars>>

(* effects_test.go:491-521: one call of Clone.                             *)
RszClone == RszReturn("Clone", Clone(rImg), rSigma, rCrop)

(* crop.go:9-14: one call of Crop with a rectangle of the size width x     *)
(* height placed at or next to the image's minimum corner.                 *)
RszCrop ==
    \E ox \in -1..1, oy \in -1..1 :
        LET rect == Rect(rImg.minX + ox, rImg.minY + oy,
                         rImg.minX + ox + rWidth, rImg.minY + oy + rHeight)
        IN  RszReturn("Crop", Crop(rImg, rect), rSigma, rect)

(* crop.go:18-36: one call of CropCenter.                                  *)
RszCropCenter ==
    RszReturn("CropCenter", CropCenter(rImg, rWidth, rHeight), rSigma,
              CropCenterRect(rImg, rWidth, rHeight))

(* The sigma arguments: non-positive ones and a positive one.              *)
GeoSigmas == {-1, 0, 1}

(* part_002:111-130: one call of Blur.                                     *)
RszBlur == \E sg \in GeoSigmas : RszReturn("Blur", Blur(rImg, sg), sg, rCrop)

(* sharpen.go:14-46: one call of Sharpen.                                  *)
RszSharpen == \E sg \in GeoSigmas : RszReturn("Sharpen", Sharpen(rImg, sg), sg, rCrop)

(* part_003:238-268: one call of Paste(img, img, pos).                     *)
RszPaste == RszReturn("Paste", Paste(rImg, rImg), rSigma, rCrop)

(* part_001:294-528: one call of scan on a scanner of the image; it        *)
(* returns no image.                                                       *)
RszScan == RszReturn("scan", rOut, rSigma, rCrop)

(* The caller stores into a pixel of the image it was returned.            *)
RszCallerWrite ==
    /\ rpc = "done"
    /\ Dx(rOut) > 0 /\ Dy(rOut) > 0
    /\ rWritten' = rWritten \cup {rOut.buf}
    /\ rpc' = "written"
    /\ UNCHANGED <<rImg, rWidth, rHeight, rSupport2, rOut, rOp, rTmp, rCrop, rSigma, rWin,
                   parVars, chanVars, pxVars, scVars>>


(***************************************************************************)
(* Images with their pixels.  An *image.NRGBA is its bounds, its Stride    *)
(* and its Pix slice (Pix[i] of the code is pix[i + 1] here); Pix starts   *)
(* at the pixel (Min.X, Min.Y).                                            *)
(***************************************************************************)

(* The colours of the source pixels: opaque red, opaque blue, transparent  *)
(* black.                                                                  *)
Palette == << <<255, 0, 0, 255>>, <<0, 0, 255, 255>>, <<0, 0, 0, 0>> >>

(* The bytes of a row between its last pixel and the next row (a           *)
(* sub-image's Stride is its parent's).                                    *)
PadByte == 77

Abs(n) == IF n < 0 THEN -n ELSE n

(* &image.NRGBA{} *)
EmptyPix == [minX |-> 0, minY |-> 0, maxX |-> 0, maxY |-> 0, stride |-> 0, pix |-> << >>]

(* image.NewNRGBA(image.Rect(0, 0, w, h)): zeroed pixels, Stride 4*w.      *)
NewNRGBAPix(w, h) ==
    [minX |-> Min2(0, w), minY |-> Min2(0, h), maxX |-> Max2(0, w), maxY |-> Max2(0, h),
     stride |-> 4 * Abs(w),
     pix |-> [i \in 1..(4 * Abs(w) * Abs(h)) |-> 0]]

(* image.NewNRGBA(r) *)
NewNRGBARect(r) ==
    [minX |-> r.minX, minY |-> r.minY, maxX |-> r.maxX, maxY |-> r.maxY,
     stride |-> 4 * (r.maxX - r.minX),
     pix |-> [i \in 1..(4 * (r.maxX - r.minX) * (r.maxY - r.minY)) |-> 0]]

(* NRGBA.PixOffset *)
PixOffset(img, x, y) == (y - img.minY) * img.stride + (x - img.minX) * 4

(* The byte of channel ch (0..3) of the pixel (x, y) of the image.         *)
ByteAt(img, x, y, ch) == img.pix[PixOffset(img, x, y) + ch + 1]

(* Variant of CloneRowStep that advances the source by the destination's   *)
(* Stride.                                                                 *)
CloneRowStepDst(img, dstStride) == dstStride

(* effects_test.go:510, 514: dj := src0.Stride; j0 += dj.                  *)
CloneRowStep(img, dstStride) == img.stride

(* Variant of CloneDstBounds that keeps the source's origin.               *)
CloneDstBoundsKept(img) == Bounds(img)

(* effects_test.go:492-493: dstBounds := srcBounds.Sub(srcBounds.Min).     *)
CloneDstBounds(img) == RectSub(Bounds(img), img.minX, img.minY)

(* effects_test.go:491-521: Clone of an *image.NRGBA; row by row,          *)
(* copy(dst.Pix[i0:i0+rowSize], src0.Pix[j0:j0+rowSize]).                  *)
ClonePix(img) ==
    LET dstImg == NewNRGBARect(CloneDstBounds(img))
        rowSize == Dx(img) * 4
        numRows == Dy(img)
        i0 == PixOffset(dstImg, dstImg.minX, dstImg.minY)
        j0 == PixOffset(img, img.minX, img.minY)
    IN  [dstImg EXCEPT !.pix =
            [i \in DOMAIN dstImg.pix |->
                LET row == (i - 1 - i0) \div dstImg.stride
                    col == (i - 1 - i0) % dstImg.stride
                IN  IF row < numRows /\ col < rowSize
                    THEN img.pix[j0 + row * CloneRowStep(img, dstImg.stride) + col + 1]
                    ELSE dstImg.pix[i]]]

(* helpers.go:222-230: an *image.NRGBA at origin (0, 0) is used as it is.  *)
toNRGBAPix(img) == IF img.minX = 0 /\ img.minY = 0 THEN img ELSE ClonePix(img)

(* Variant of SubImagePix whose Pix still starts at the parent's first     *)
(* pixel.                                                                  *)
SubImagePixWholeBuffer(src, r) ==
    LET u == Intersect(r, Bounds(src))
    IN  IF RectEmpty(u) THEN EmptyPix
        ELSE [minX |-> u.minX, minY |-> u.minY, maxX |-> u.maxX, maxY |-> u.maxY,
              stride |-> src.stride, pix |-> src.pix]

(* NRGBA.SubImage with its pixels: Rect is the part of r inside the image, *)
(* Stride the parent's and Pix the parent's from the offset of the         *)
(* rectangle's first pixel on: Pix: p.Pix[i:].                             *)
SubImagePix(src, r) ==
    LET u == Intersect(r, Bounds(src))
    IN  IF RectEmpty(u) THEN EmptyPix
        ELSE [minX |-> u.minX, minY |-> u.minY, maxX |-> u.maxX, maxY |-> u.maxY,
              stride |-> src.stride,
              pix |-> SubSeq(src.pix, PixOffset(src, u.minX, u.minY) + 1, Len(src.pix))]

(* crop.go:9-14 with the pixels.                                           *)
CropPix(img, rect) ==
    ClonePix(SubImagePix(toNRGBAPix(img), RectSub(rect, img.minX, img.minY)))

(* crop.go:18-36 with the pixels.                                          *)
CropCenterPix(img, width, height) == CropPix(img, CropCenterRect(img, width, height))

(* math.Ceil(num/den) and math.Floor(num/den) for den > 0.                 *)
CeilDiv(num, den) == -((-num) \div den)

FloorDiv(num, den) == num \div den

RECURSIVE SumFn(_, _, _)
SumFn(f, lo, hi) == IF lo > hi THEN 0 ELSE f[lo] + SumFn(f, lo + 1, hi)

(* Variant of Support2Of in which every cubic filter has Support 2.0.      *)
Support2OfCubicTwo(filter) ==
    CASE filter = "NearestNeighbor" -> 0
      [] filter = "Box" -> 1
      [] filter = "Linear" -> 2
      [] filter \in {"Hermite", "MitchellNetravali", "CatmullRom", "BSpline", "Gaussian"} -> 4
      [] OTHER -> 6

(* Twice filter.Support (part_001:107, 111, 122, 133, 144, 155, 166, 177,  *)
(* 188, 199, 210, 221, 232, 243, 254).                                     *)
Support2Of(filter) ==
    CASE filter = "NearestNeighbor" -> 0
      [] filter = "Box" -> 1
      [] filter \in {"Linear", "Hermite"} -> 2
      [] filter \in {"MitchellNetravali", "CatmullRom", "BSpline", "Gaussian"} -> 4
      [] filter \in {"Bartlett", "Lanczos", "Hann", "Hamming", "Blackman", "Welch", "Cosine"} -> 6

(* part_001:112-118: the Box kernel at x = num/den, den > 0.               *)
BoxKernel(num, den) == IF 2 * Abs(num) <= den THEN 1 ELSE 0

(* Variant of ScaleNum that never widens the kernel.                       *)
ScaleNumOne(srcN, dstN) == dstN

(* resample.go:80: scaleX = max(dX, 1) with dX = srcW/dstW, as the         *)
(* numerator over the denominator dstN.                                    *)
ScaleNum(srcN, dstN) == Max2(srcN, dstN)

(* resample.go:81: rX = ceil(scaleX * filter.Support).                     *)
Radius(srcN, dstN, support2) == CeilDiv(ScaleNum(srcN, dstN) * support2, 2 * dstN)

(* resample.go:89: fX = (dstX + 0.5) * dX - 0.5, times 2 * dstN.           *)
Center2(srcN, dstN, d) == (2 * d + 1) * srcN - dstN

(* resample.go:91-94 *)
WindowStart(srcN, dstN, support2, d) ==
    Max2(CeilDiv(Center2(srcN, dstN, d) - 2 * dstN * Radius(srcN, dstN, support2), 2 * dstN), 0)

(* resample.go:95-98 *)
WindowEnd(srcN, dstN, support2, d) ==
    Min2(FloorDiv(Center2(srcN, dstN, d) + 2 * dstN * Radius(srcN, dstN, support2), 2 * dstN),
         srcN - 1)

(* resample.go:103: filter.Kernel((x - fX) / scaleX) for the Box filter.   *)
Weight(srcN, dstN, d, x) ==
    BoxKernel(2 * dstN * x - Center2(srcN, dstN, d), 2 * ScaleNum(srcN, dstN))

(* resample.go:108-129: the weighted sum of one channel over the window,   *)
(* divided by weightSum, clamped to [0, 255], and uint8(v + 0.5).  vals is *)
(* the channel's byte at every source index of the axis.  A window of      *)
(* weight 0 (a division 0/0 in the code) does not occur: some source index *)
(* always lies within half a sample of the centre.                         *)
Convolve(vals, srcN, dstN, support2, d) ==
    LET lo == WindowStart(srcN, dstN, support2, d)
        hi == WindowEnd(srcN, dstN, support2, d)
        w == [x \in lo..hi |-> Weight(srcN, dstN, d, x)]
        weightSum == SumFn(w, lo, hi)
        acc == SumFn([x \in lo..hi |-> vals[x] * w[x]], lo, hi)
    IN  IF weightSum = 0 THEN 0
        ELSE Min2(Max2((2 * acc + weightSum) \div (2 * weightSum), 0), 255)

(* resample.go:69-135 *)
resizeHorizontalPix(src, width, filter) ==
    LET srcW == src.maxX
        srcH == src.maxY
        dstImg == NewNRGBAPix(width, srcH)
    IN  [dstImg EXCEPT !.pix =
            [j \in DOMAIN dstImg.pix |->
                LET dstY == (j - 1) \div dstImg.stride
                    dstX == ((j - 1) % dstImg.stride) \div 4
                    ch == (j - 1) % 4
                IN  Convolve([x \in 0..(srcW - 1) |-> src.pix[dstY * src.stride + x * 4 + ch + 1]],
                             srcW, width, Support2Of(filter), dstX)]]

(* resample.go:137-203 *)
resizeVerticalPix(src, height, filter) ==
    LET srcW == src.maxX
        srcH == src.maxY
        dstImg == NewNRGBAPix(srcW, height)
    IN  [dstImg EXCEPT !.pix =
            [j \in DOMAIN dstImg.pix |->
                LET dstY == (j - 1) \div dstImg.stride
                    dstX == ((j - 1) % dstImg.stride) \div 4
                    ch == (j - 1) % 4
                IN  Convolve([y \in 0..(srcH - 1) |-> src.pix[y * src.stride + dstX * 4 + ch + 1]],
                             srcH, height, Support2Of(filter), dstY)]]

(***************************************************************************)
(* float64 arithmetic.  The code computes source positions in float64;     *)
(* every operation rounds its exact result to the nearest value with a     *)
(* 53-bit significand, ties to even (IEEE 754).  A finite float64 is held   *)
(* exactly as [neg, n, s], the value (-1)^neg * n * 2^(-s), where n is a    *)
(* natural number written as the sequence of its digits in base 2^14,      *)
(* least significant first and without leading zeros.                      *)
(***************************************************************************)

Limb == 2 ^ 14

RECURSIVE BigNorm(_)
BigNorm(n) == IF n = << >> \/ n[Len(n)] # 0 THEN n ELSE BigNorm(SubSeq(n, 1, Len(n) - 1))

(* The natural number k < 2^28 in digits.                                  *)
BigOfInt(k) == BigNorm(<<k % Limb, k \div Limb>>)

(* The value of a number of at most two digits.                            *)
BigToInt(n) ==
    IF n = << >> THEN 0 ELSE IF Len(n) = 1 THEN n[1] ELSE n[1] + n[2] * Limb

RECURSIVE BigMulCarry(_, _, _)
BigMulCarry(n, k, carry) ==
    IF n = << >> THEN BigOfInt(carry)
    ELSE LET t == Head(n) * k + carry
         IN  <<t % Limb>> \o BigMulCarry(Tail(n), k, t \div Limb)

(* n * k for 0 <= k < 2^15.                                                *)
BigMulSmall(n, k) == IF k = 1 THEN n ELSE BigNorm(BigMulCarry(n, k, 0))

(* <<n \div k, n % k>> for 0 < k <= 2^14.                                  *)
RECURSIVE BigDivRem(_, _)
BigDivRem(n, k) ==
    IF n = << >> THEN << << >>, 0 >>
    ELSE LET hi == BigDivRem(Tail(n), k)
             t == hi[2] * Limb + Head(n)
         IN  << <<t \div k>> \o hi[1], t % k >>

RECURSIVE BigAddCarry(_, _, _)
BigAddCarry(a, b, carry) ==
    IF a = << >> /\ b = << >> THEN (IF carry = 0 THEN << >> ELSE <<carry>>)
    ELSE LET x == IF a = << >> THEN 0 ELSE Head(a)
             y == IF b = << >> THEN 0 ELSE Head(b)
             t == x + y + carry
         IN  <<t % Limb>> \o BigAddCarry(IF a = << >> THEN a ELSE Tail(a),
                                         IF b = << >> THEN b ELSE Tail(b), t \div Limb)

BigAdd(a, b) == BigAddCarry(a, b, 0)

(* a - b for a >= b.                                                       *)
RECURSIVE BigSubBorrow(_, _, _)
BigSubBorrow(a, b, borrow) ==
    IF a = << >> THEN << >>
    ELSE LET y == IF b = << >> THEN 0 ELSE Head(b)
             t == Head(a) - y - borrow
         IN  <<t % Limb>> \o BigSubBorrow(Tail(a), IF b = << >> THEN b ELSE Tail(b),
                                          IF t < 0 THEN 1 ELSE 0)

BigSub(a, b) == BigNorm(BigSubBorrow(a, b, 0))

(* a < b *)
RECURSIVE BigLess(_, _)
BigLess(a, b) ==
    IF Len(a) # Len(b) THEN Len(a) < Len(b)
    ELSE IF a = << >> THEN FALSE
    ELSE IF a[Len(a)] # b[Len(b)] THEN a[Len(a)] < b[Len(b)]
    ELSE BigLess(SubSeq(a, 1, Len(a) - 1), SubSeq(b, 1, Len(b) - 1))

(* Number of binary digits of a number below 2^14.                         *)
RECURSIVE BitLen(_)
BitLen(k) == IF k = 0 THEN 0 ELSE 1 + BitLen(k \div 2)

BigBitLen(n) == IF n = << >> THEN 0 ELSE (Len(n) - 1) * 14 + BitLen(n[Len(n)])

(* n * 2^sh *)
BigShl(n, sh) ==
    IF n = << >> \/ sh = 0 THEN n
    ELSE [i \in 1 .. (sh \div 14) |-> 0] \o BigMulSmall(n, 2 ^ (sh % 14))

(* <<n \div 2^sh, whether a one was shifted out>>                          *)
BigShr(n, sh) ==
    IF sh = 0 THEN <<n, FALSE>> ELSE
    LET drop == sh \div 14
        low == SubSeq(n, 1, IF drop < Len(n) THEN drop ELSE Len(n))
        qr == BigDivRem(SubSeq(n, drop + 1, Len(n)), 2 ^ (sh % 14))
    IN  <<BigNorm(qr[1]), qr[2] # 0 \/ \E i \in DOMAIN low : low[i] # 0>>

BigOdd(n) == n # << >> /\ n[1] % 2 = 1

(* The float64 nearest to (-1)^neg * (n + e) * 2^(-s), where 0 < e < 1 if  *)
(* sticky and e = 0 otherwise: round to nearest, ties to even.             *)
Round53(neg, n, s, sticky) ==
    LET len == BigBitLen(n) IN
    IF len <= 53 THEN [neg |-> neg, n |-> n, s |-> s]
    ELSE LET sh == len - 53
             q1 == BigShr(n, sh - 1)
             q == BigShr(q1[1], 1)
             up == q[2] /\ (q1[2] \/ sticky \/ BigOdd(q[1]))
         IN  [neg |-> neg, n |-> IF up THEN BigAdd(q[1], <<1>>) ELSE q[1], s |-> s - sh]

(* float64(a) / float64(b) for integers 0 <= a < 2^14 and 0 < b < 2^14.    *)
F64Div(a, b) ==
    LET qr == BigDivRem(BigShl(BigOfInt(a), 70), b)
    IN  Round53(FALSE, BigNorm(qr[1]), 70, qr[2] # 0)

(* v * (k / 2) for an integer 0 <= k < 2^15.                               *)
F64MulHalves(v, k) == Round53(v.neg, BigMulSmall(v.n, k), v.s + 1, FALSE)

(* v + k / 2 for an integer k of absolute value below 2^15.                *)
F64AddHalves(v, k) ==
    LET s == IF v.s < 1 THEN 1 ELSE v.s
        n == BigShl(v.n, s - v.s)
        m == BigShl(BigOfInt(IF k < 0 THEN -k ELSE k), s - 1)
        kneg == k < 0
    IN  IF v.neg = kneg THEN Round53(v.neg, BigAdd(n, m), s, FALSE)
        ELSE IF BigLess(n, m) THEN Round53(kneg, BigSub(m, n), s, FALSE)
        ELSE Round53(v.neg /\ n # m, BigSub(n, m), s, FALSE)

(* int(math.Floor(v)) for |v| < 2^27.                                      *)
F64Floor(v) ==
    LET q == BigShr(v.n, IF v.s < 0 THEN 0 ELSE v.s)
        i == BigToInt(q[1])
    IN  IF v.neg THEN -(i + (IF q[2] THEN 1 ELSE 0)) ELSE i

(* int(math.Ceil(v)) for |v| < 2^27.                                       *)
F64Ceil(v) ==
    LET q == BigShr(v.n, IF v.s < 0 THEN 0 ELSE v.s)
        i == BigToInt(q[1])
    IN  IF v.neg THEN -i ELSE i + (IF q[2] THEN 1 ELSE 0)

(* v < 1.0 *)
F64LessThanOne(v) == v.neg \/ BigLess(BigShl(v.n, IF v.s < 0 THEN -v.s ELSE 0),
                                     BigShl(<<1>>, IF v.s < 0 THEN 0 ELSE v.s))

(* Variant of NearestIndex without the rounding step: floor(fx).           *)
NearestIndexFloor(dx, srcN, d) ==
    LET fx == F64AddHalves(F64MulHalves(dx, 2 * d + 1), -1)
    IN  Min2(Max2(F64Floor(fx), 0), srcN)

(* Variant of NearestIndex that samples at the pixel's left edge:          *)
(* fx := float64(dstX)*dx - 0.5.                                           *)
NearestIndexNoHalf(dx, srcN, d) ==
    LET fx == F64AddHalves(F64MulHalves(dx, 2 * d), -1)
    IN  Min2(Max2(F64Floor(F64AddHalves(fx, 1)), 0), srcN)

(* resample.go:222, 226-227: fx := (float64(dstX)+0.5)*dx - 0.5 and        *)
(* srcX := int(min(max(floor(fx + 0.5), 0), srcW)), each in float64.       *)
NearestIndex(dx, srcN, d) ==
    LET fx == F64AddHalves(F64MulHalves(dx, 2 * d + 1), -1)
    IN  Min2(Max2(F64Floor(F64AddHalves(fx, 1)), 0), srcN)

(* resample.go:218-227: the source index of each destination index        *)
(* 0 .. k - 1, as a sequence.                                              *)
RECURSIVE NearestIndices(_, _, _)
NearestIndices(dx, srcN, k) ==
    IF k <= 0 THEN << >>
    ELSE Append(NearestIndices(dx, srcN, k - 1), NearestIndex(dx, srcN, k - 1))

(* resample.go:215-227: the source index of each destination index of a   *)
(* pass from srcN to dstN pixels; dx is computed once.                     *)
NearestPass(srcN, dstN) == NearestIndices(F64Div(srcN, dstN), srcN, dstN)

(* NearestPass of the sizes up to MaxPixels, evaluated once.               *)
NearestSmall ==
    [srcN \in 1 .. MaxPixels |-> [dstN \in 1 .. MaxPixels |-> NearestPass(srcN, dstN)]]

(* resample.go:206-239 *)
resizeNearestPix(src, width, height) ==
    LET srcW == src.maxX
        srcH == src.maxY
        dstImg == NewNRGBAPix(width, height)
        pass(srcN, dstN) ==
            IF srcN <= MaxPixels /\ dstN <= MaxPixels
            THEN NearestSmall[srcN][dstN] ELSE NearestPass(srcN, dstN)
        srcXs == pass(srcW, width)
        srcYs == pass(srcH, height)
    IN  [dstImg EXCEPT !.pix =
            [j \in DOMAIN dstImg.pix |->
                LET dstY == (j - 1) \div dstImg.stride
                    dstX == ((j - 1) % dstImg.stride) \div 4
                    ch == (j - 1) % 4
                    srcOff == srcYs[dstY + 1] * src.stride + srcXs[dstX + 1] * 4
                IN  src.pix[srcOff + ch + 1]]]

(* resample.go:19-67 *)
ResizePix(img, width, height, filter) ==
    IF width < 0 \/ height < 0 THEN EmptyPix
    ELSE IF width = 0 /\ height = 0 THEN EmptyPix
    ELSE
      LET src == toNRGBAPix(img)
          srcW == src.maxX
          srcH == src.maxY
      IN
      IF srcW <= 0 \/ srcH <= 0 THEN EmptyPix
      ELSE
        LET dstW == IF width = 0 THEN Max2(1, FloorHalfUp(height * srcW, srcH)) ELSE width
            dstH == IF height = 0 THEN Max2(1, FloorHalfUp(dstW * srcH, srcW)) ELSE height
        IN
        IF Support2Of(filter) <= 0 THEN resizeNearestPix(src, dstW, dstH)
        ELSE
          LET dst1 == IF srcW # dstW THEN resizeHorizontalPix(src, dstW, filter) ELSE src
          IN  IF srcH # dstH THEN resizeVerticalPix(dst1, dstH, filter) ELSE dst1

(* resample.go:251-283 *)
FitPix(img, width, height, filter) ==
    IF NonPositive(width, height) THEN EmptyPix
    ELSE
      LET srcW == Dx(img)
          srcH == Dy(img)
      IN
      IF srcW <= 0 \/ srcH <= 0 THEN EmptyPix
      ELSE IF FitsBox(srcW, srcH, width, height) THEN ClonePix(img)
      ELSE
        LET wider == WiderThan(srcW, srcH, width, height)
            newW == IF wider THEN width ELSE GoDiv(height * srcW, srcH)
            newH == IF wider THEN GoDiv(width * srcH, srcW) ELSE height
        IN  ResizePix(img, newW, newH, filter)

(* Sigma is counted in hundredths.  part_002:118: radius :=                *)
(* int(math.Ceil(sigma * 3.0)).                                            *)
BlurRadius(sigma) == CeilDiv(3 * sigma, 100)

(* part_002:100-102, 119-123: kernel[i] is 0.0 for i >= 1 when sigma is at *)
(* most 0.02: exp(-i*i/(2*sigma*sigma)) is then below the smallest         *)
(* float64 and underflows to zero.  Larger sigmas are not modelled.        *)
KernelIsZero(i, sigma) == i >= 1 /\ sigma <= 2

(* part_002:132-178 and 180-226: one pass of Blur for 0 < sigma <= 0.02,   *)
(* along the rows if horizontal and along the columns if not.  Of the      *)
(* window [x - radius, x + radius] only the pixel itself has a non-zero    *)
(* weight w0, so that r = v * (alpha * w0), a = alpha * w0 and weightSum = *)
(* w0: the pixel is stored as clamp(r / a) = v and clamp(a / weightSum) =  *)
(* alpha when alpha > 0, and as clamp(NaN) for R, G, B and 0 for A when    *)
(* alpha = 0.  nan is the byte the conversion of NaN to uint8 gives.       *)
blurPass(src, horizontal, sigma, nan) ==
    LET width == src.maxX
        height == src.maxY
        dstImg == NewNRGBAPix(width, height)
        radius == BlurRadius(sigma)
    IN  [dstImg EXCEPT !.pix =
            [j \in DOMAIN dstImg.pix |->
                LET y == (j - 1) \div dstImg.stride
                    x == ((j - 1) % dstImg.stride) \div 4
                    ch == (j - 1) % 4
                    pos == IF horizontal THEN x ELSE y
                    last == IF horizontal THEN width - 1 ELSE height - 1
                    start == Max2(pos - radius, 0)
                    end == Min2(pos + radius, last)
                    taps == {t \in start .. end : ~KernelIsZero(Abs(pos - t), sigma)}
                    i(t) == IF horizontal THEN y * src.stride + t * 4
                            ELSE t * src.stride + x * 4
                    alphaSum == SumFn([t \in start .. end |->
                                          IF t \in taps THEN src.pix[i(t) + 3 + 1] ELSE 0],
                                      start, end)
                    colourSum == SumFn([t \in start .. end |->
                                          IF t \in taps
                                          THEN src.pix[i(t) + ch + 1] * src.pix[i(t) + 3 + 1]
                                          ELSE 0],
                                       start, end)
                IN  IF ch = 3 THEN alphaSum \div Cardinality(taps)
                    ELSE IF alphaSum = 0 THEN nan
                    ELSE colourSum \div alphaSum]]

(* part_002:111-130 *)
BlurPix(img, sigma, nan) ==
    IF sigma <= 0 THEN ClonePix(img)
    ELSE blurPass(blurPass(toNRGBAPix(img), TRUE, sigma, nan), FALSE, sigma, nan)

(* sharpen.go:27-31: the indices k = y*src.Stride + x*4 + j at which       *)
(* Sharpen reads src.Pix and blurred.Pix and stores into dst.Pix.          *)
SharpenIndices(src) ==
    {y * src.stride + x * 4 + j : y \in 0 .. src.maxY - 1, x \in 0 .. src.maxX - 1, j \in 0 .. 3}

(* sharpen.go:32, 38: an index outside blurred.Pix or dst.Pix, which have  *)
(* width * height * 4 bytes, stops the program with a run-time panic.      *)
SharpenPanics(img, sigma) ==
    /\ sigma > 0
    /\ LET src == toNRGBAPix(img)
       IN  \E k \in SharpenIndices(src) : k >= 4 * src.maxX * src.maxY \/ k >= Len(src.pix)

(* v clamped to [0, 255] (sharpen.go:33-37).                               *)
ClampByte(v) == IF v < 0 THEN 0 ELSE IF v > 255 THEN 255 ELSE v

(* sharpen.go:14-46, for the calls that do not panic.                      *)
SharpenPix(img, sigma, nan) ==
    IF sigma <= 0 THEN ClonePix(img)
    ELSE LET src == toNRGBAPix(img)
             blurred == BlurPix(img, sigma, nan)
             dstImg == NewNRGBAPix(src.maxX, src.maxY)
         IN  [dstImg EXCEPT !.pix =
                 [n \in DOMAIN dstImg.pix |->
                     IF n - 1 \in SharpenIndices(src)
                     THEN ClampByte(src.pix[n] + (src.pix[n] - blurred.pix[n]))
                     ELSE dstImg.pix[n]]]

(***************************************************************************)
(* The filter catalog and the source window of a resampling pass           *)
(* (resample.go:69-135 along the rows, 137-203 along the columns).         *)
(***************************************************************************)

(* part_001:105-263: the catalog.                                          *)
Filters ==
    {"NearestNeighbor", "Box", "Linear", "Hermite", "MitchellNetravali", "CatmullRom",
     "BSpline", "Gaussian", "Bartlett", "Lanczos", "Hann", "Hamming", "Blackman", "Welch",
     "Cosine"}

(* The float64 1.0.                                                        *)
F64One == [neg |-> FALSE, n |-> <<1>>, s |-> 0]

(* resample.go:79-80: dX := float64(srcW) / float64(dstW) and              *)
(* scaleX := math.Max(dX, 1.0).                                            *)
WinScale(srcN, dstN) ==
    LET dX == F64Div(srcN, dstN) IN IF F64LessThanOne(dX) THEN F64One ELSE dX

(* resample.go:81: rX := math.Ceil(scaleX * filter.Support), an integer.   *)
WinRadius(srcN, dstN, support2) == F64Ceil(F64MulHalves(WinScale(srcN, dstN), support2))

(* resample.go:85: len(weights) = int(rX+2)*2.                             *)
WeightsLen(srcN, dstN, support2) == (WinRadius(srcN, dstN, support2) + 2) * 2

(* resample.go:89: fX := (float64(dstX)+0.5)*dX - 0.5.                     *)
WinCenter(srcN, dstN, d) == F64AddHalves(F64MulHalves(F64Div(srcN, dstN), 2 * d + 1), -1)

(* resample.go:91-94: startX := int(math.Ceil(fX - rX)), at least 0.       *)
WinStart(srcN, dstN, support2, d) ==
    Max2(F64Ceil(F64AddHalves(WinCenter(srcN, dstN, d),
                              -2 * WinRadius(srcN, dstN, support2))), 0)

(* Variant of WinEnd without the clamp to the last source index.           *)
WinEndUnclamped(srcN, dstN, support2, d) ==
    F64Floor(F64AddHalves(WinCenter(srcN, dstN, d), 2 * WinRadius(srcN, dstN, support2)))

(* resample.go:95-98: endX := int(math.Floor(fX + rX)), at most srcW-1.    *)
WinEnd(srcN, dstN, support2, d) ==
    Min2(F64Floor(F64AddHalves(WinCenter(srcN, dstN, d),
                               2 * WinRadius(srcN, dstN, support2))), srcN - 1)

(* No filter read and no window computed.                                  *)
NoWindow ==
    [filter |-> "none", support2 |-> 0, axis |-> "none", d |-> 0, start |-> 0, end |-> 0,
     len |-> 0]

(* The arguments of a Resize that changes the width of a one-row NRGBA     *)
(* image at origin (0, 0), or the height of a one-column one.              *)
WinInit ==
    /\ \E n \in 1 .. MaxWin, m \in 1 .. MaxWin, row \in BOOLEAN :
          /\ n # m
          /\ rImg = [minX |-> 0, minY |-> 0, maxX |-> IF row THEN n ELSE 1,
                     maxY |-> IF row THEN 1 ELSE n, nrgba |-> TRUE, buf |-> "src"]
          /\ rWidth = IF row THEN m ELSE 1
          /\ rHeight = IF row THEN 1 ELSE m
    /\ rSupport2 = 0
    /\ rpc = "call"
    /\ rOut = EmptyImage
    /\ rOp = "none"
    /\ rTmp = EmptyImage
    /\ rCrop = ZR
    /\ rSigma = 0
    /\ rWritten = {}
    /\ rWin = NoWindow

(* resample.go:50: Resize reads filter.Support of its argument filter and  *)
(* takes the nearest-neighbour path or the resampling passes.              *)
RszFilter ==
    /\ rpc = "call"
    /\ \E f \in Filters :
          /\ rWin' = [rWin EXCEPT !.filter = f, !.support2 = Support2Of(f)]
          /\ rSupport2' = Support2Of(f)
          /\ rpc' = IF Support2Of(f) <= 0 THEN "nearest" ELSE "resample"
    /\ rOp' = "Resize"
    /\ UNCHANGED <<rImg, rWidth, rHeight, rOut, rTmp, rCrop, rSigma, rWritten,
                   parVars, chanVars, pxVars, scVars>>

(* The source and the destination size of the pass along an axis: the     *)
(* pass along the rows runs first and leaves the height as it is           *)
(* (resample.go:58-66, 70-77, 138-145).                                    *)
PassSrc(axis) == IF axis = "x" THEN Dx(rImg) ELSE Dy(rImg)

PassDstSize(axis) == IF axis = "x" THEN rWidth ELSE rHeight

(* resample.go:83-106 (rows) and 151-174 (columns): the chunk's weight     *)
(* cache is allocated and the window of one destination coordinate is      *)
(* computed and cached. A pass runs only where the size changes            *)
(* (resample.go:58, 63).                                                   *)
RszWindow ==
    /\ rpc = "resample"
    /\ \E axis \in {"x", "y"} :
          /\ PassSrc(axis) # PassDstSize(axis)
          /\ \E d \in 0 .. PassDstSize(axis) - 1 :
                rWin' = [rWin EXCEPT
                            !.axis = axis,
                            !.d = d,
                            !.start = WinStart(PassSrc(axis), PassDstSize(axis), rSupport2, d),
                            !.end = WinEnd(PassSrc(axis), PassDstSize(axis), rSupport2, d),
                            !.len = WeightsLen(PassSrc(axis), PassDstSize(axis), rSupport2)]
    /\ rpc' = "window"
    /\ UNCHANGED <<rImg, rWidth, rHeight, rSupport2, rOut, rOp, rTmp, rCrop, rSigma, rWritten,
                   parVars, chanVars, pxVars, scVars>>

(* The sizes w x h of the source images, at most MaxPixels pixels.         *)
Shapes == { sh \in (0..MaxPixels) \X (0..MaxPixels) : sh[1] * sh[2] <= MaxPixels /\ sh[1] + sh[2] > 0 }

(* The w x h image at origin o whose rows are followed by pad unused       *)
(* pixels and whose pixel (o[1] + x, o[2] + y) has colour Palette[cols[y * w + x]]. *)
MakeImage(o, w, h, pad, cols) ==
    [minX |-> o[1], minY |-> o[2], maxX |-> o[1] + w, maxY |-> o[2] + h,
     stride |-> 4 * (w + pad),
     pix |-> [i \in 1..(4 * (w + pad) * h) |->
                LET y == (i - 1) \div (4 * (w + pad))
                    x == ((i - 1) % (4 * (w + pad))) \div 4
                    ch == (i - 1) % 4
                IN  IF x < w THEN Palette[cols[y * w + x]][ch + 1] ELSE PadByte]]

(* The filters of the pixel model.                                         *)
PixFilters == {"NearestNeighbor", "Box"}

(* The sigma arguments of Blur and Sharpen that take the early return.     *)
Sigmas == {-1, 0}

(* The positive sigmas, in hundredths.                                     *)
PosSigmas == {1, 2}

(* The bytes the conversion of NaN to uint8 may give.                      *)
NaNBytes == {0, 255}

(* Origin and row padding of the source images: an image as New makes it,  *)
(* and a sub-image of a wider image.                                       *)
PixLayouts == {<<0, 0, 0>>, <<-1, 2, 1>>}

(* The layouts of the sharpened images: also origin (0, 0) with padded     *)
(* rows, as a sub-image at the origin has.                                 *)
FxLayouts == PixLayouts \cup {<<0, 0, 1>>}

PxInitFrom(layouts) ==
    /\ \E lay \in layouts, sh \in Shapes :
         \E cols \in [0..(sh[1] * sh[2] - 1) -> 1..Len(Palette)] :
            pImg = MakeImage(<<lay[1], lay[2]>>, sh[1], sh[2], lay[3], cols)
    /\ pWidth = 0
    /\ pHeight = 0
    /\ pFilter = "NearestNeighbor"
    /\ pSigma = 0
    /\ ppc = "call"
    /\ pOp = "none"
    /\ pOut = EmptyPix

PxInit == PxInitFrom(PixLayouts)

PxIdle ==
    /\ pImg = EmptyPix
    /\ pWidth = 0
    /\ pHeight = 0
    /\ pFilter = "NearestNeighbor"
    /\ pSigma = 0
    /\ ppc = "idle"
    /\ pOp = "none"
    /\ pOut = EmptyPix

(* resample.go:19-67: one call of Resize on an *image.NRGBA.               *)
PxResize ==
    /\ ppc = "call"
    /\ \E w \in -1..(MaxDim + 1), h \in -1..(MaxDim + 1), f \in PixFilters :
          /\ pWidth' = w
          /\ pHeight' = h
          /\ pFilter' = f
          /\ pOut' = ResizePix(pImg, w, h, f)
    /\ ppc' = "done"
    /\ pOp' = "Resize"
    /\ UNCHANGED <<pImg, pSigma, parVars, chanVars, rszVars, scVars>>

(* The sizes requested of the nearest-neighbour filter: the small ones    *)
(* and, for a source of one or two pixels, single rows and columns of the  *)
(* largest lengths.                                                        *)
NearSizes(img) ==
    ((1 .. MaxPixels) \X (1 .. MaxPixels))
        \cup (IF Dx(img) * Dy(img) \in 1 .. 2
              THEN {<<w, 1>> : w \in (MaxNear - 1) .. MaxNear}
                       \cup {<<1, h>> : h \in (MaxNear - 1) .. MaxNear}
              ELSE {})

(* resample.go:19-67: one call of Resize with the NearestNeighbor filter.  *)
PxResizeNearest ==
    /\ ppc = "call"
    /\ \E sz \in NearSizes(pImg) :
          /\ pWidth' = sz[1]
          /\ pHeight' = sz[2]
          /\ pOut' = ResizePix(pImg, sz[1], sz[2], "NearestNeighbor")
    /\ pFilter' = "NearestNeighbor"
    /\ ppc' = "done"
    /\ pOp' = "Resize"
    /\ UNCHANGED <<pImg, pSigma, parVars, chanVars, rszVars, scVars>>

(* resample.go:19-67: the result of a nearest-neighbour Resize is resized  *)
(* back to the size of the original image, again with NearestNeighbor.     *)
PxResizeBack ==
    /\ ppc = "done"
    /\ pOp = "Resize"
    /\ pFilter = "NearestNeighbor"
    /\ pOut' = ResizePix(pOut, Dx(pImg), Dy(pImg), "NearestNeighbor")
    /\ ppc' = "back"
    /\ UNCHANGED <<pImg, pWidth, pHeight, pFilter, pSigma, pOp, parVars, chanVars, rszVars, scVars>>

(* resample.go:251-283: one call of Fit on an *image.NRGBA.                *)
PxFit ==
    /\ ppc = "call"
    /\ \E w \in -1..(MaxDim + 1), h \in -1..(MaxDim + 1), f \in PixFilters :
          /\ pWidth' = w
          /\ pHeight' = h
          /\ pFilter' = f
          /\ pOut' = FitPix(pImg, w, h, f)
    /\ ppc' = "done"
    /\ pOp' = "Fit"
    /\ UNCHANGED <<pImg, pSigma, parVars, chanVars, rszVars, scVars>>

(* part_002:111-115: one call of Blur with sigma <= 0.                     *)
PxBlur ==
    /\ ppc = "call"
    /\ \E sg \in Sigmas :
          /\ pSigma' = sg
          /\ pOut' = BlurPix(pImg, sg, 0)
    /\ ppc' = "done"
    /\ pOp' = "Blur"
    /\ UNCHANGED <<pImg, pWidth, pHeight, pFilter, parVars, chanVars, rszVars, scVars>>

(* sharpen.go:14-18: one call of Sharpen with sigma <= 0.                  *)
PxSharpen ==
    /\ ppc = "call"
    /\ \E sg \in Sigmas :
          /\ pSigma' = sg
          /\ pOut' = SharpenPix(pImg, sg, 0)
    /\ ppc' = "done"
    /\ pOp' = "Sharpen"
    /\ UNCHANGED <<pImg, pWidth, pHeight, pFilter, parVars, chanVars, rszVars, scVars>>

(* The width and height arguments of CropCenter.                           *)
CropSizes == -1 .. (MaxPixels + 1)

(* crop.go:18-36: one call of CropCenter.                                  *)
PxCropCenter ==
    /\ ppc = "call"
    /\ \E w \in CropSizes, h \in CropSizes :
          /\ pWidth' = w
          /\ pHeight' = h
          /\ pOut' = CropCenterPix(pImg, w, h)
    /\ ppc' = "done"
    /\ pOp' = "CropCenter"
    /\ UNCHANGED <<pImg, pFilter, pSigma, parVars, chanVars, rszVars, scVars>>

(* part_002:111-130: one call of Blur with a positive sigma.               *)
PxBlurPos ==
    /\ ppc = "call"
    /\ \E sg \in PosSigmas, nan \in NaNBytes :
          /\ pSigma' = sg
          /\ pOut' = BlurPix(pImg, sg, nan)
    /\ ppc' = "done"
    /\ pOp' = "Blur"
    /\ UNCHANGED <<pImg, pWidth, pHeight, pFilter, parVars, chanVars, rszVars, scVars>>

(* sharpen.go:14-46: one call of Sharpen with a positive sigma; it returns *)
(* or panics.                                                              *)
PxSharpenPos ==
    /\ ppc = "call"
    /\ \E sg \in PosSigmas, nan \in NaNBytes :
          /\ pSigma' = sg
          /\ IF SharpenPanics(pImg, sg)
             THEN pOut' = EmptyPix /\ ppc' = "panic"
             ELSE pOut' = SharpenPix(pImg, sg, nan) /\ ppc' = "done"
    /\ pOp' = "Sharpen"
    /\ UNCHANGED <<pImg, pWidth, pHeight, pFilter, parVars, chanVars, rszVars, scVars>>

(***************************************************************************)
(* The scanner (part_001:272-528) and the images it reads.  An image is    *)
(* its encoding, its bounds and its sample planes: pix with stride for the *)
(* packed encodings and, for *image.YCbCr, pix = Y with stride = YStride   *)
(* and the planes cb, cr with cstride.  Pix[i] of the code is pix[i + 1].  *)
(***************************************************************************)

(* uint8(v) *)
U8(v) == v % 256

(* (a * b) / d in uint32 for 16-bit a, b and d: the product is below 2^32 *)
(* and never wraps.  It is computed on the two bytes of b, which keeps     *)
(* every intermediate value below 2^31.                                    *)
MulDiv(a, b, d) ==
    LET hi == a * (b \div 256)
        lo == a * (b % 256)
    IN  (hi \div d) * 256 + (((hi % d) * 256 + lo) \div d)

(* Variant of Mul16 with the product in uint8.                             *)
Mul16InByte(a, b) == (a * b) % 256

(* part_001:347-349: the product of two uint16 values, in uint16.          *)
Mul16(a, b) == (a * b) % 65536

(* part_001:347-349: uint8(c16 * 0xff / a16) of *image.RGBA.               *)
Unpremul8(cv, a) == U8(Mul16(cv, 255) \div a)

(* The product of two values below 2^16, as its high and low 16 bits; the  *)
(* high part is not reduced.                                               *)
WideMul(a, b) ==
    LET x == a * (b \div 256)
        y == a * (b % 256)
        t == (x % 256) * 256 + y
    IN  [hi |-> (x \div 256) + (t \div 65536), lo |-> t % 65536]

(* part_001:379-381, 519-521: the product of two uint32 values below 2^16, *)
(* in uint32.                                                              *)
Mul32(a, b) == [hi |-> WideMul(a, b).hi % 65536, lo |-> WideMul(a, b).lo]

(* (p / d) >> 8 in uint32, for 0 < d < 2^16.                               *)
Quot32Shr8(p, d) == (p.hi \div d) * 256 + (((p.hi % d) * 256 + (p.lo \div 256)) \div d)

(* part_001:379-381, 519-521: uint8((c32 * 0xffff / a32) >> 8).            *)
Unpremul16(cv, a) == U8(Quot32Shr8(Mul32(cv, 65535), a))

(* color.NRGBAModel.Convert of a colour other than color.NRGBA, given its  *)
(* RGBA() value: alpha-premultiplied 16-bit r, g, b, a.                    *)
NRGBAModelConvert(col) ==
    LET a == col[4] IN
    IF a = 65535 THEN <<U8(col[1] \div 256), U8(col[2] \div 256), U8(col[3] \div 256), 255>>
    ELSE IF a = 0 THEN <<0, 0, 0, 0>>
    ELSE <<U8(MulDiv(col[1], 65535, a) \div 256),
           U8(MulDiv(col[2], 65535, a) \div 256),
           U8(MulDiv(col[3], 65535, a) \div 256),
           U8(a \div 256)>>

(* One component of color.YCbCr.RGBA(): a 24-bit fixed-point value v is    *)
(* shifted to 16 bits, and saturates at 0 and 0xffff.                      *)
Saturate16(v) == IF v < 0 THEN 0 ELSE IF v >= 16777216 THEN 65535 ELSE v \div 256

(* color.YCbCr{y, cb, cr}.RGBA() *)
YCbCrRGBA(y, cb, cr) ==
    LET yy1 == y * 65793
        cb1 == cb - 128
        cr1 == cr - 128
    IN  <<Saturate16(yy1 + 91881 * cr1),
          Saturate16(yy1 - 22554 * cb1 - 46802 * cr1),
          Saturate16(yy1 + 116130 * cb1),
          65535>>

YCbCrEncodings == {"YCbCr444", "YCbCr422", "YCbCr420", "YCbCr440", "YCbCr411", "YCbCr410"}

(* The image types without a case of their own in scan: *image.Alpha,      *)
(* *image.Alpha16 and a type that embeds *image.RGBA.                      *)
GenericEncodings == {"Alpha", "Alpha16", "GenericRGBA"}

Encodings ==
    {"NRGBA", "NRGBA64", "RGBA", "RGBA64", "Gray", "Gray16", "Paletted"}
        \cup YCbCrEncodings \cup GenericEncodings

(* Bytes per pixel of the plane pix.                                       *)
BytesPerPixel(enc) ==
    CASE enc \in {"NRGBA", "RGBA", "GenericRGBA"} -> 4
      [] enc \in {"NRGBA64", "RGBA64"} -> 8
      [] enc \in {"Gray16", "Alpha16"} -> 2
      [] OTHER -> 1

(* image.YCbCr.COffset, with Go's truncating division.                     *)
COffset(img, x, y) ==
    CASE img.enc = "YCbCr422" ->
            (y - img.minY) * img.cstride + (GoDiv(x, 2) - GoDiv(img.minX, 2))
      [] img.enc = "YCbCr420" ->
            (GoDiv(y, 2) - GoDiv(img.minY, 2)) * img.cstride + (GoDiv(x, 2) - GoDiv(img.minX, 2))
      [] img.enc = "YCbCr440" ->
            (GoDiv(y, 2) - GoDiv(img.minY, 2)) * img.cstride + (x - img.minX)
      [] img.enc = "YCbCr411" ->
            (y - img.minY) * img.cstride + (GoDiv(x, 4) - GoDiv(img.minX, 4))
      [] img.enc = "YCbCr410" ->
            (GoDiv(y, 2) - GoDiv(img.minY, 2)) * img.cstride + (GoDiv(x, 4) - GoDiv(img.minX, 4))
      [] OTHER ->
            (y - img.minY) * img.cstride + (x - img.minX)

(* img.At(x, y).RGBA() for a point of the bounds: the pixel is found at    *)
(* PixOffset(x, y) = (y - Min.Y) * Stride + (x - Min.X) * bytes per pixel. *)
ColorRGBA(img, x, y) ==
    LET i == (y - img.minY) * img.stride + (x - img.minX) * BytesPerPixel(img.enc)
        p(k) == img.pix[i + k + 1]
        p16(k) == p(k) * 256 + p(k + 1)
    IN  CASE img.enc = "NRGBA64" ->
                <<MulDiv(p16(0), p16(6), 65535), MulDiv(p16(2), p16(6), 65535),
                  MulDiv(p16(4), p16(6), 65535), p16(6)>>
          [] img.enc \in {"RGBA", "GenericRGBA"} ->
                <<p(0) * 257, p(1) * 257, p(2) * 257, p(3) * 257>>
          [] img.enc = "RGBA64" -> <<p16(0), p16(2), p16(4), p16(6)>>
          [] img.enc = "Gray" -> <<p(0) * 257, p(0) * 257, p(0) * 257, 65535>>
          [] img.enc = "Gray16" -> <<p16(0), p16(0), p16(0), 65535>>
          [] img.enc = "Alpha" -> <<p(0) * 257, p(0) * 257, p(0) * 257, p(0) * 257>>
          [] img.enc = "Alpha16" -> <<p16(0), p16(0), p16(0), p16(0)>>
          [] img.enc = "Paletted" ->
                LET e == img.palette[p(0) + 1]
                IN  <<e[1] * 257, e[2] * 257, e[3] * 257, e[4] * 257>>
          [] OTHER ->
                YCbCrRGBA(img.pix[(y - img.minY) * img.stride + (x - img.minX) + 1],
                          img.cb[COffset(img, x, y) + 1],
                          img.cr[COffset(img, x, y) + 1])

(* part_003:207: color.NRGBAModel.Convert(img.At(x, y)); a color.NRGBA is  *)
(* returned as it is.                                                      *)
ConvertAt(img, x, y) ==
    IF img.enc = "NRGBA"
    THEN LET i == (y - img.minY) * img.stride + (x - img.minX) * 4
         IN  <<img.pix[i + 1], img.pix[i + 2], img.pix[i + 3], img.pix[i + 4]>>
    ELSE NRGBAModelConvert(ColorRGBA(img, x, y))

(* part_001:278-291: newScanner converts the palette once.                 *)
ScannerPalette(img) ==
    [n \in DOMAIN img.palette |->
        NRGBAModelConvert(<<img.palette[n][1] * 257, img.palette[n][2] * 257,
                            img.palette[n][3] * 257, img.palette[n][4] * 257>>)]

(* Variant of Clamp8 that clamps from below only.                          *)
Clamp8Low(v) == IF v < 0 THEN 0 ELSE v

(* v clamped to [0, 0xff] (part_001:449-453).                              *)
Clamp8(v) == IF v > 255 THEN 255 ELSE IF v < 0 THEN 0 ELSE v

(* part_001:431-442: the chroma index of scan, x and y absolute.           *)
ScanCOffset(img, x, y) ==
    CASE img.enc = "YCbCr444" ->
            (y - img.minY) * img.cstride + (x - img.minX)
      [] img.enc = "YCbCr422" ->
            (y - img.minY) * img.cstride + (GoDiv(x, 2) - GoDiv(img.minX, 2))
      [] img.enc = "YCbCr420" ->
            (GoDiv(y, 2) - GoDiv(img.minY, 2)) * img.cstride + (GoDiv(x, 2) - GoDiv(img.minX, 2))
      [] img.enc = "YCbCr440" ->
            (GoDiv(y, 2) - GoDiv(img.minY, 2)) * img.cstride + (x - img.minX)
      [] OTHER -> COffset(img, x, y)

(* part_001:299, 309, 325, 360, 392, 408, 483: i := y*img.Stride + x*n     *)
(* for the packed encodings, x and y relative to the bounds' origin.       *)
ScanIndex(img, x, y) == y * img.stride + x * BytesPerPixel(img.enc)

(* part_001:294-528: the four bytes scan writes for the pixel at the       *)
(* relative position (x, y).                                               *)
ScanPixel(img, x, y) ==
    LET i == ScanIndex(img, x, y)
        s(k) == img.pix[i + k + 1]
    IN  CASE img.enc = "NRGBA" -> <<s(0), s(1), s(2), s(3)>>
          [] img.enc = "NRGBA64" -> <<s(0), s(2), s(4), s(6)>>
          [] img.enc = "RGBA" ->
                LET a == s(3) IN
                IF a = 0 THEN <<0, 0, 0, a>>
                ELSE IF a = 255 THEN <<s(0), s(1), s(2), a>>
                ELSE <<Unpremul8(s(0), a), Unpremul8(s(1), a), Unpremul8(s(2), a), a>>
          [] img.enc = "RGBA64" ->
                LET a == s(6)
                    a32 == s(6) * 256 + s(7)
                IN
                IF a = 0 THEN <<0, 0, 0, a>>
                ELSE IF a = 255 THEN <<s(0), s(2), s(4), a>>
                ELSE <<Unpremul16(s(0) * 256 + s(1), a32),
                       Unpremul16(s(2) * 256 + s(3), a32),
                       Unpremul16(s(4) * 256 + s(5), a32), a>>
          [] img.enc \in {"Gray", "Gray16"} -> <<s(0), s(0), s(0), 255>>
          [] img.enc = "Paletted" -> ScannerPalette(img)[s(0) + 1]
          [] img.enc \in YCbCrEncodings ->
                LET ax == x + img.minX
                    ay == y + img.minY
                    iy == (ay - img.minY) * img.stride + (ax - img.minX)
                    ic == ScanCOffset(img, ax, ay)
                    yy == img.pix[iy + 1]
                    cb == img.cb[ic + 1] - 128
                    cr == img.cr[ic + 1] - 128
                IN  <<Clamp8((yy * 65536 + 91881 * cr + 32768) \div 65536),
                      Clamp8((yy * 65536 - 22554 * cb - 46802 * cr + 32768) \div 65536),
                      Clamp8((yy * 65536 + 116130 * cb + 32768) \div 65536),
                      255>>
          [] OTHER ->
                LET col == ColorRGBA(img, x + img.minX, y + img.minY)
                    a16 == col[4]
                IN
                IF a16 = 65535
                THEN <<U8(col[1] \div 256), U8(col[2] \div 256), U8(col[3] \div 256), 255>>
                ELSE IF a16 = 0 THEN <<0, 0, 0, 0>>
                ELSE <<Unpremul16(col[1], a16), Unpremul16(col[2], a16),
                       Unpremul16(col[3], a16), U8(a16 \div 256)>>

(* Variant of ScanLen that counts the pixels of one row only.              *)
ScanLenOneRow(x1, y1, x2, y2) == IF x2 > x1 /\ y2 > y1 THEN (x2 - x1) * 4 ELSE 0

(* Number of bytes scan writes: j advances by 4 for every pixel of the     *)
(* rows y1..y2-1 and columns x1..x2-1.                                     *)
ScanLen(x1, y1, x2, y2) == IF x2 > x1 /\ y2 > y1 THEN (x2 - x1) * (y2 - y1) * 4 ELSE 0

(* part_001:294-528: dst after scan(x1, y1, x2, y2, dst).                  *)
Scan(img, x1, y1, x2, y2, buf) ==
    [j \in DOMAIN buf |->
        IF j - 1 < ScanLen(x1, y1, x2, y2)
        THEN LET q == (j - 1) \div 4
                 y == y1 + (q \div (x2 - x1))
                 x == x1 + (q % (x2 - x1))
             IN  ScanPixel(img, x, y)[((j - 1) % 4) + 1]
        ELSE buf[j]]

(* The values a pixel of each encoding takes in the images scanned here,   *)
(* as the samples stored for it: bytes of Pix in storage order, and        *)
(* <<Y, Cb, Cr>> for *image.YCbCr.  Premultiplied samples do not exceed    *)
(* alpha, as img.Set stores them (part_003:110-201), in the first four     *)
(* values; a fifth one, where there is one, cannot be stored by img.Set.   *)
SamplesOf(enc) ==
    CASE enc = "NRGBA" ->
            << <<255, 0, 0, 255>>, <<10, 200, 30, 128>>, <<90, 90, 90, 0>>, <<1, 2, 3, 1>> >>
      [] enc = "NRGBA64" ->
            << <<128, 0, 0, 0, 255, 255, 128, 128>>, <<255, 255, 18, 52, 0, 1, 255, 255>>,
               <<0, 0, 0, 0, 0, 0, 0, 0>>, <<200, 7, 100, 200, 3, 3, 1, 0>>,
               <<90, 0, 0, 0, 0, 0, 0, 0>> >>
      [] enc \in {"RGBA", "GenericRGBA"} ->
            << <<253, 0, 100, 254>>, <<255, 128, 0, 255>>, <<0, 0, 0, 0>>, <<64, 32, 127, 128>>,
               <<200, 0, 0, 100>> >>
      [] enc = "RGBA64" ->
            << <<253, 10, 0, 0, 100, 0, 254, 0>>, <<255, 255, 128, 0, 0, 0, 255, 255>>,
               <<0, 0, 0, 0, 0, 0, 0, 0>>, <<255, 0, 1, 2, 128, 128, 255, 128>>,
               <<0, 9, 0, 0, 0, 0, 0, 200>> >>
      [] enc \in {"Gray", "Alpha"} -> << <<0>>, <<255>>, <<77>>, <<128>> >>
      [] enc \in {"Gray16", "Alpha16"} ->
            << <<18, 52>>, <<255, 255>>, <<0, 200>>, <<128, 0>> >>
      [] enc = "Paletted" -> << <<0>>, <<1>>, <<2>>, <<3>> >>
      [] OTHER -> << <<255, 255, 255>>, <<0, 0, 0>>, <<128, 128, 128>>, <<10, 100, 135>> >>

(* The palette of the *image.Paletted images: color.RGBA entries.          *)
ScanPalette == << <<255, 0, 0, 255>>, <<0, 0, 255, 255>>, <<0, 0, 0, 0>>, <<64, 32, 127, 128>> >>

(* Horizontal and vertical subsampling factors of a YCbCr encoding.        *)
SubX(enc) ==
    CASE enc \in {"YCbCr422", "YCbCr420"} -> 2
      [] enc \in {"YCbCr411", "YCbCr410"} -> 4
      [] OTHER -> 1

SubY(enc) == IF enc \in {"YCbCr420", "YCbCr440", "YCbCr410"} THEN 2 ELSE 1

(* image.NewYCbCr: width and height of the chroma planes of an image with  *)
(* the bounds (minX, minY)-(maxX, maxY).                                   *)
ChromaWidth(enc, minX, maxX) ==
    IF SubX(enc) = 1 THEN maxX - minX
    ELSE GoDiv(maxX + SubX(enc) - 1, SubX(enc)) - GoDiv(minX, SubX(enc))

ChromaHeight(enc, minY, maxY) ==
    IF SubY(enc) = 1 THEN maxY - minY
    ELSE GoDiv(maxY + 1, 2) - GoDiv(minY, 2)

(* The row-major number of the pixel (x, y) of img, from 1.                *)
PixelNo(img, x, y) == (y - img.minY) * (img.maxX - img.minX) + (x - img.minX) + 1

(* The points of the bounds of img.                                        *)
PointsOf(img) == (img.minX .. img.maxX - 1) \X (img.minY .. img.maxY - 1)

(* part_003:110-201: an image of the encoding enc with the bounds          *)
(* (ox, oy)-(ox + w, oy + h), whose pixel number p holds the samples       *)
(* SamplesOf(enc)[cols[p]].  A packed image has pad unused bytes at the    *)
(* end of each row, as a sub-image has; a chroma sample shared by several  *)
(* pixels is that of the last of them (part_003:113-121).                  *)
MakeScanImage(enc, ox, oy, w, h, pad, cols) ==
    LET bpp == BytesPerPixel(enc)
        base == [enc |-> enc, minX |-> ox, minY |-> oy, maxX |-> ox + w, maxY |-> oy + h,
                 palette |-> IF enc = "Paletted" THEN ScanPalette ELSE <<>>]
    IN
    IF enc \in YCbCrEncodings
    THEN LET cw == ChromaWidth(enc, ox, ox + w)
             ch == ChromaHeight(enc, oy, oy + h)
             geo == base @@ [stride |-> w, cstride |-> cw]
             last(cell) ==
                 LET ps == {PixelNo(geo, pt[1], pt[2]) :
                              pt \in {q \in PointsOf(geo) : COffset(geo, q[1], q[2]) = cell}}
                 IN  IF ps = {} THEN 0 ELSE CHOOSE p \in ps : \A q \in ps : p >= q
             plane(k) ==
                 [n \in 1 .. cw * ch |->
                    IF last(n - 1) = 0 THEN PadByte
                    ELSE SamplesOf(enc)[cols[last(n - 1)]][k]]
         IN  geo @@ [pix |-> [n \in 1 .. w * h |-> SamplesOf(enc)[cols[n]][1]],
                     cb |-> plane(2), cr |-> plane(3)]
    ELSE LET stride == w * bpp + pad IN
         base @@ [stride |-> stride, cstride |-> 0, cb |-> <<>>, cr |-> <<>>,
                  pix |-> [n \in 1 .. stride * h |->
                             LET y == (n - 1) \div stride
                                 xb == (n - 1) % stride
                             IN  IF xb < w * bpp
                                 THEN SamplesOf(enc)[cols[y * w + (xb \div bpp) + 1]][(xb % bpp) + 1]
                                 ELSE PadByte]]

(* Every pixel of img has its chroma samples inside the chroma planes.     *)
ChromaInside(img) ==
    img.enc \in YCbCrEncodings =>
        \A pt \in PointsOf(img) :
            COffset(img, pt[1], pt[2]) \in 0 .. Len(img.cb) - 1

(* The image without pixels the scanner variables hold outside SpecScan.   *)
NoScanImage ==
    [enc |-> "NRGBA", minX |-> 0, minY |-> 0, maxX |-> 0, maxY |-> 0, palette |-> <<>>,
     stride |-> 0, cstride |-> 0, cb |-> <<>>, cr |-> <<>>, pix |-> <<>>]

(* Bounds origins of the scanned images; part_003:14 uses (-1, -1).        *)
ScanOrigins == {<<0, 0>>, <<-1, -1>>, <<3, 1>>}

(* Widths and heights of the scanned images.                               *)
ScanShapes == {s \in (1 .. MaxScanPixels) \X (1 .. MaxScanPixels) : s[1] * s[2] <= MaxScanPixels}

(* The value of a byte of dst that no scan has written.                    *)
Unwritten == -1

(* Pixel number p takes the sample 1 + (seed + p * step) % k of k.          *)
Colouring(seed, step, n, k) == [p \in 1 .. n |-> 1 + ((seed + p * step) % k)]

(* part_003:51-60: an image of each encoding, a scanner for it and a       *)
(* buffer for its whole bounds.                                            *)
ScInit ==
    /\ \E enc \in Encodings, o \in ScanOrigins, s \in ScanShapes,
          seed \in 0 .. 4, step \in 0 .. 1, pad \in 0 .. 1 :
          /\ (enc \in YCbCrEncodings \/ enc \in {"Paletted"}) => pad = 0
          /\ sImg = MakeScanImage(enc, o[1], o[2], s[1], s[2], pad,
                                  Colouring(seed, step, s[1] * s[2], Len(SamplesOf(enc))))
    /\ ChromaInside(sImg)
    /\ sDst = [j \in 1 .. 4 * (sImg.maxX - sImg.minX) * (sImg.maxY - sImg.minY) |-> Unwritten]
    /\ sRect = <<0, 0, 0, 0>>
    /\ spc = "ready"

ScIdle ==
    /\ sImg = NoScanImage
    /\ sDst = <<>>
    /\ sRect = <<0, 0, 0, 0>>
    /\ spc = "idle"

(* The encodings whose pixels scan un-premultiplies: *image.RGBA,          *)
(* *image.RGBA64 and, through the fallback, *image.Alpha16 and a type that *)
(* embeds *image.RGBA.                                                     *)
PremulEncodings == {"RGBA", "RGBA64", "Alpha16", "GenericRGBA"}

(* The 8-bit alpha values and the 16-bit colour and alpha values of the    *)
(* un-premultiplied pixels: the ends of the range, the values around a     *)
(* change of the high byte, and values in between.                         *)
Alphas8 == {0, 1, 2, 127, 128, 254, 255}

Vals16 ==
    {0, 1, 255, 256, 257, 32767, 32768, 65279, 65280, 65534, 65535}
        \cup {k * 4369 : k \in 0 .. 15}

Alphas16 == {0, 1, 255, 256, 257, 32768, 65279, 65280, 65534, 65535}

(* The two bytes of a 16-bit sample, high byte first.                      *)
Bytes16(v) == <<v \div 256, v % 256>>

(* The samples of a pixel with colour value cv and alpha a: red is cv,     *)
(* green is the smaller of cv and a, blue is a.                            *)
PremulSamples(enc, cv, a) ==
    CASE enc = "RGBA64" ->
            Bytes16(cv) \o Bytes16(Min2(cv, a)) \o Bytes16(a) \o Bytes16(a)
      [] enc = "Alpha16" -> Bytes16(a)
      [] OTHER -> <<cv, Min2(cv, a), a, a>>

(* A 1 x 1 image at origin (0, 0) with the given samples.                  *)
OnePixelImage(enc, samples) ==
    [enc |-> enc, minX |-> 0, minY |-> 0, maxX |-> 1, maxY |-> 1, palette |-> <<>>,
     stride |-> BytesPerPixel(enc), cstride |-> 0, cb |-> <<>>, cr |-> <<>>, pix |-> samples]

(* A one-pixel image of an encoding that scan un-premultiplies, with       *)
(* samples that are valid premultiplied values (colour <= alpha) or not,   *)
(* a scanner for it and a buffer for its pixel.                            *)
UnpremulInit ==
    /\ \E enc \in PremulEncodings :
          IF enc \in {"RGBA", "GenericRGBA"}
          THEN \E cv \in 0 .. 255, a \in Alphas8 :
                  sImg = OnePixelImage(enc, PremulSamples(enc, cv, a))
          ELSE \E cv \in Vals16, a \in (IF enc = "Alpha16" THEN Vals16 ELSE Alphas16) :
                  /\ enc = "Alpha16" => cv = a
                  /\ sImg = OnePixelImage(enc, PremulSamples(enc, cv, a))
    /\ sDst = [j \in 1 .. 4 |-> Unwritten]
    /\ sRect = <<0, 0, 0, 0>>
    /\ spc = "ready"

(* part_003:61-105: the rectangles scanned, relative to the bounds'        *)
(* origin: the whole bounds, each row and each column.                     *)
ScanRects(img) ==
    LET w == img.maxX - img.minX
        h == img.maxY - img.minY
    IN  {<<0, 0, w, h>>}
            \cup {<<0, y, w, y + 1>> : y \in 0 .. h - 1}
            \cup {<<x, 0, x + 1, h>> : x \in 0 .. w - 1}

(* s.scan(x1, y1, x2, y2, buf) *)
ScScan ==
    /\ spc = "ready"
    /\ \E r \in ScanRects(sImg) :
          /\ sRect' = r
          /\ sDst' = Scan(sImg, r[1], r[2], r[3], r[4], sDst)
    /\ spc' = "done"
    /\ UNCHANGED <<sImg, parVars, chanVars, rszVars, pxVars>>

(***************************************************************************)
(* Specifications.                                                         *)
(***************************************************************************)
Init == ParInit /\ ChanIdle /\ RszIdle /\ PxIdle /\ ScIdle

Next ==
    \/ ParStart
    \/ ParSeqFn
    \/ ParSpawn
    \/ ParWait
    \/ \E w \in Workers : WorkerClaim(w)
    \/ \E w \in Workers : WorkerFn(w)
    \/ \E w \in Workers : WorkerDone(w)

(* One call of the atomic-counter parallel.                                *)
Spec == Init /\ [][Next]_vars

(* The same call, also on ranges that give chunks of more than one index.  *)
InitLarge == ParInitLarge /\ ChanIdle /\ RszIdle /\ PxIdle /\ ScIdle

SpecLarge == InitLarge /\ [][Next]_vars

(* The call with the marking fn, under a scheduler that runs every         *)
(* runnable goroutine eventually.                                          *)
InitMark == ParInitFrom(MarkConfigs) /\ ChanIdle /\ RszIdle /\ PxIdle /\ ScIdle

FairSpec ==
    /\ InitMark
    /\ [][Next]_vars
    /\ WF_vars(Caller)
    /\ \A w \in Workers : WF_vars(Worker(w))

(* One call of the channel-based parallel.                                 *)
InitChan == ParIdle /\ ChanInit /\ RszIdle /\ PxIdle /\ ScIdle

NextChan ==
    \/ ChanStart
    \/ ChanSpawn
    \/ ChanWait
    \/ \E w \in Workers : ChanRecv(w)
    \/ \E w \in Workers : ChanFnReturn(w)

SpecChan == InitChan /\ [][NextChan]_vars

(* One call of either parallel.                                            *)
InitBoth == Init \/ InitChan

NextBoth == Next \/ NextChan

SpecBoth == InitBoth /\ [][NextBoth]_vars

(* One call of Resize.                                                     *)
InitResize == ParIdle /\ ChanIdle /\ RszInit /\ PxIdle /\ ScIdle

NextResize == RszResize

SpecResize == InitResize /\ [][NextResize]_vars

(* One call of Resize, Fit or Thumbnail.                                   *)
InitGeo == ParIdle /\ ChanIdle /\ GeoInit /\ PxIdle /\ ScIdle

NextGeo ==
    \/ RszResize
    \/ RszFit
    \/ RszThumbnail

SpecGeo == InitGeo /\ [][NextGeo]_vars

(* Every operation that takes an image, and a store of the caller into the *)
(* image it was returned.                                                  *)
NextOps ==
    \/ RszResize
    \/ RszFit
    \/ RszThumbnail
    \/ RszClone
    \/ RszCrop
    \/ RszCropCenter
    \/ RszBlur
    \/ RszSharpen
    \/ RszPaste
    \/ RszScan
    \/ RszCallerWrite

SpecOps == InitGeo /\ [][NextOps]_vars

(* One call of Resize, Fit, Blur or Sharpen on an image with its pixels.   *)
InitPix == ParIdle /\ ChanIdle /\ RszIdle /\ PxInit /\ ScIdle

NextPix ==
    \/ PxResize
    \/ PxFit
    \/ PxBlur
    \/ PxSharpen

SpecPix == InitPix /\ [][NextPix]_vars

(* One call of Resize with the NearestNeighbor filter, and a second one    *)
(* that resizes its result back.                                           *)
NextNear ==
    \/ PxResizeNearest
    \/ PxResizeBack

SpecNear == InitPix /\ [][NextNear]_vars

(* One call of CropCenter on an image with its pixels.                     *)
NextCrop == PxCropCenter

SpecCrop == InitPix /\ [][NextCrop]_vars

(* The resampling pass of one call of Resize.                              *)
InitWin == ParIdle /\ ChanIdle /\ WinInit /\ PxIdle /\ ScIdle

NextWin ==
    \/ RszFilter
    \/ RszWindow

SpecWin == InitWin /\ [][NextWin]_vars

(* One call of Blur or Sharpen with a positive sigma.                      *)
InitFx == ParIdle /\ ChanIdle /\ RszIdle /\ PxInitFrom(FxLayouts) /\ ScIdle

NextFx ==
    \/ PxBlurPos
    \/ PxSharpenPos

SpecFx == InitFx /\ [][NextFx]_vars

(* The scanner of part_001:272-528 applied to an image of each encoding.   *)
InitScan == ParIdle /\ ChanIdle /\ RszIdle /\ PxIdle /\ ScInit

NextScan == ScScan

SpecScan == InitScan /\ [][NextScan]_vars

(* One scan of a one-pixel image that is un-premultiplied.                 *)
InitUnpremul == ParIdle /\ ChanIdle /\ RszIdle /\ PxIdle /\ UnpremulInit

SpecUnpremul == InitUnpremul /\ [][NextScan]_vars

(***************************************************************************)
(* Properties.                                                             *)
(***************************************************************************)

(* The fn invocations, finished so far, whose range contains index i.      *)
Covering(i) == { cl \in BagToSet(calls) : cl[2] <= i /\ i < cl[3] }

(* The end of the chunk that starts at partStart.                          *)
ChunkEnd(partStart) ==
    IF numGoroutines = 1 THEN dataSize ELSE Min2(partStart + partSize, dataSize)

(* The chunk starts of the range.                                          *)
ChunkStarts == { s \in 0..(dataSize - 1) : s % partSize = 0 }

(* C1: when the atomic-counter parallel has returned, every index of       *)
(* [0, dataSize) lies in the range of exactly one fn invocation: none is   *)
(* skipped, none is covered by two invocations or twice by the same range. *)
C1_EveryIndexExactlyOnce ==
    pc = "done" =>
        \A i \in 0..(dataSize - 1) :
            LET cov == Covering(i) IN
            /\ Cardinality(cov) = 1
            /\ \A cl \in cov : CopiesIn(cl, calls) = 1

C1_Witness ==
    /\ pc = "done"
    /\ numGoroutines = 2
    /\ partSize = 2
    /\ <<"worker", dataSize - 1, dataSize>> \in BagToSet(calls)
    /\ \A i \in 0..(dataSize - 1) : Cardinality(Covering(i)) = 1

(* C2: in the channel-based parallel no index is ever received twice; when *)
(* parallel has returned every index of [start, stop) has been received by *)
(* exactly one worker; and when stop - start < 1, fn is never called.      *)
C2_ChanEveryIndexExactlyOnce ==
    /\ \A i \in DOMAIN recvBy : Len(recvBy[i]) <= 1
    /\ cpc = "done" => \A i \in cStart..(cStop - 1) : Len(recvBy[i]) = 1
    /\ cStop - cStart < 1 => fnCalls = 0 /\ \A w \in Workers : cwpc[w] = "none"

C2_Witness ==
    /\ cpc = "done"
    /\ cStop - cStart >= 2
    /\ cMaxProcs >= 2
    /\ \A i \in cStart..(cStop - 1) : Len(recvBy[i]) = 1
    /\ \E i, j \in cStart..(cStop - 1) : recvBy[i] # recvBy[j]

(* C3: when either parallel has returned to its caller, every worker it    *)
(* spawned has exited, no fn invocation is in progress, and no chunk or    *)
(* index is left unclaimed.                                                *)
C3_Barrier ==
    /\ pc = "done" =>
          /\ \A w \in Workers : wpc[w] \in {"none", "done"}
          /\ numGoroutines > 1 =>
                /\ spawned = numGoroutines
                /\ \A w \in 1..spawned : wpc[w] = "done"
                /\ idx >= dataSize
                /\ \A s \in ChunkStarts : <<"worker", s, ChunkEnd(s)>> \in BagToSet(calls)
    /\ cpc = "done" =>
          /\ \A w \in Workers : cwpc[w] \in {"none", "done"}
          /\ \A w \in 1..cSpawned : cwpc[w] = "done"
          /\ cSpawned = procs
          /\ c = << >>

C3_Witness ==
    /\ pc = "done"
    /\ numGoroutines >= 2
    /\ dataSize >= 2
    /\ \A w \in 1..numGoroutines : wpc[w] = "done"
    /\ \E s, t \in ChunkStarts :
          /\ s # t
          /\ <<"worker", s, ChunkEnd(s)>> \in BagToSet(calls)
          /\ <<"worker", t, ChunkEnd(t)>> \in BagToSet(calls)

(* Every chunk of [0, dataSize) has been run: the whole range by the       *)
(* caller, or every chunk by a worker.                                     *)
AllChunksRun ==
    IF numGoroutines = 1
    THEN <<"caller", 0, dataSize>> \in BagToSet(calls)
    ELSE \A s \in ChunkStarts : <<"worker", s, ChunkEnd(s)>> \in BagToSet(calls)

(* C4: under fair scheduling parallel eventually returns; it returns only  *)
(* after every chunk of [0, dataSize) has been run; and a worker leaves    *)
(* its loop only when the counter has passed the end of the range.         *)
C4_TerminatesAfterAllChunks ==
    /\ <>(pc = "done")
    /\ [](pc = "done" => AllChunksRun)
    /\ [](\A w \in Workers : wpc[w] \in {"exit", "done"} => idx >= dataSize)

C4_Witness ==
    /\ pc = "done"
    /\ numGoroutines >= 2
    /\ dataSize >= 3
    /\ AllChunksRun

(* C5: when parallelizationEnabled is false or GOMAXPROCS is 1, parallel   *)
(* spawns no worker and calls fn exactly once, with (0, dataSize), on the  *)
(* calling thread, and has returned right after that call.                 *)
C5_SequentialFallback ==
    (~enabled \/ numProcs = 1) =>
        /\ spawned = 0
        /\ wg = 0
        /\ \A w \in Workers : wpc[w] = "none"
        /\ pc \in {"start", "seq", "done"}
        /\ pc = "done" => calls = SetToBag({<<"caller", 0, dataSize>>})
        /\ pc # "done" => calls = EmptyBag

C5_Witness ==
    /\ pc = "done"
    /\ ~enabled
    /\ numProcs > 1
    /\ dataSize > 1
    /\ calls = SetToBag({<<"caller", 0, dataSize>>})

(* The destination a single call fn(0, dataSize) leaves behind.            *)
SequentialResult ==
    [b \in Locations |-> IF b \in WriteSet(fnKind, 0, dataSize) THEN PixVal(b) ELSE 0]

(* C6: whatever the flag, the number of workers and the interleaving, the  *)
(* destination after parallel has returned is the one the sequential call  *)
(* fn(0, dataSize) produces.                                               *)
C6_FlagOnlyAffectsScheduling ==
    pc = "done" => dst = SequentialResult

C6_Witness ==
    /\ pc = "done"
    /\ enabled
    /\ numGoroutines >= 2
    /\ fnKind = "mark"
    /\ dataSize >= 2
    /\ BagCardinality(calls) >= 2
    /\ dst = SequentialResult

Claims(w) == wpc[w] = "claim" /\ wpc'[w] # "claim"

(* C8: the shared counter changes only in a chunk claim, by exactly        *)
(* partSize >= 1 (so it never decreases), and every claim changes it; when *)
(* parallel has returned, the chunk starts handed to fn are pairwise       *)
(* distinct multiples of partSize.                                         *)
C8_CounterOnlyFetchAdd ==
    [][ /\ idx' # idx => /\ partSize >= 1
                         /\ idx' = idx + partSize
                         /\ Cardinality({w \in Workers : Claims(w)}) = 1
        /\ \A w \in Workers : Claims(w) => idx' = idx + partSize
        /\ idx' >= idx
        /\ (pc' = "done" /\ numGoroutines' > 1) =>
              \A cl \in BagToSet(calls') :
                  /\ cl[1] = "worker"
                  /\ cl[2] % partSize' = 0
                  /\ CopiesIn(cl, calls') = 1
                  /\ \A cm \in BagToSet(calls') : cm[2] = cl[2] => cm = cl
      ]_vars

C8_Witness ==
    /\ pc = "done"
    /\ numGoroutines = 2
    /\ partSize = 2
    /\ idx >= dataSize + 2 * partSize
    /\ BagCardinality(calls) > ChunksPerWorker

(* The column (horizontal pass) or row (vertical pass) a destination byte  *)
(* belongs to.                                                             *)
AxisIndex(b) == IF fnKind = "hpass" THEN (b % DstStride) \div 4 ELSE b \div DstStride

(* C9: in the resize passes no destination byte is written by two chunks,  *)
(* every byte a chunk writes lies in a column (row) of its own range, all  *)
(* bytes of one column (row) have the same writer, and when parallel has   *)
(* returned every destination byte has been written by exactly one chunk.  *)
C9_ResizeWritesDisjoint ==
    fnKind \in {"hpass", "vpass"} =>
        /\ \A b \in DOMAIN owner :
              /\ Len(owner[b]) <= 1
              /\ \A k \in 1..Len(owner[b]) :
                    /\ owner[b][k] <= AxisIndex(b)
                    /\ AxisIndex(b) < ChunkEnd(owner[b][k])
        /\ pc = "done" =>
              /\ \A b \in DOMAIN owner : Len(owner[b]) = 1
              /\ \A b1, b2 \in DOMAIN owner :
                    AxisIndex(b1) = AxisIndex(b2) => owner[b1] = owner[b2]

C9_Witness ==
    /\ pc = "done"
    /\ fnKind = "hpass"
    /\ numGoroutines >= 2
    /\ DstW >= 2
    /\ DstH >= 2
    /\ \A b \in DOMAIN owner : Len(owner[b]) = 1
    /\ \E b1, b2 \in DOMAIN owner : owner[b1] # owner[b2]

(* C10: for a non-empty source and width, height > 0, Resize returns an    *)
(* image of exactly width x height pixels, for every filter.               *)
C10_ResizeExactSize ==
    (rpc = "done" /\ rWidth > 0 /\ rHeight > 0 /\ Dx(rImg) > 0 /\ Dy(rImg) > 0) =>
        /\ Dx(rOut) = rWidth
        /\ Dy(rOut) = rHeight

C10_Witness ==
    /\ rpc = "done"
    /\ rSupport2 > 0
    /\ rWidth > 0
    /\ rHeight > 0
    /\ Dx(rImg) = rWidth
    /\ Dy(rImg) > 0
    /\ Dy(rImg) # rHeight
    /\ Dx(rOut) = rWidth
    /\ Dy(rOut) = rHeight


(* The source image of the call has at least one pixel.                    *)
SrcNonEmpty == Dx(rImg) > 0 /\ Dy(rImg) > 0

(* C11: Resize called with a negative width or height or with width =      *)
(* height = 0, Fit and Thumbnail called with a non-positive width or       *)
(* height, and any of the three called on a source of zero width or zero   *)
(* height, return the empty 0x0 image &image.NRGBA{}: the call completes   *)
(* through an early return.                                                *)
C11_DegenerateGivesEmpty ==
    rpc = "done" =>
        /\ (rOp = "Resize" /\ (rWidth < 0 \/ rHeight < 0 \/ (rWidth = 0 /\ rHeight = 0)))
              => rOut = EmptyImage
        /\ (rOp \in {"Fit", "Thumbnail"} /\ (rWidth <= 0 \/ rHeight <= 0))
              => rOut = EmptyImage
        /\ ~SrcNonEmpty => rOut = EmptyImage

C11_Witness ==
    /\ rpc = "done"
    /\ rOp = "Thumbnail"
    /\ SrcNonEmpty
    /\ rWidth < 0
    /\ rHeight > 0
    /\ rOut = EmptyImage

(* q is the integer floor(num/den + 1/2), for den > 0.                     *)
RoundsTo(q, num, den) == 2 * q * den <= 2 * num + den /\ 2 * num + den < 2 * (q + 1) * den

(* The quotients that occur: at most (MaxSide + 1) * MaxSide, rounded up.  *)
Quotients == 0..((MaxSide + 1) * MaxSide + 1)

(* C12: on a non-empty source of size srcW x srcH, Resize(img, 0, h) with  *)
(* h > 0 returns height h and width max(1, floor(h*srcW/srcH + 1/2)), and  *)
(* Resize(img, w, 0) with w > 0 returns width w and height                 *)
(* max(1, floor(w*srcH/srcW + 1/2)).                                       *)
C12_ProportionalDimension ==
    (rpc = "done" /\ rOp = "Resize" /\ SrcNonEmpty) =>
        /\ (rWidth = 0 /\ rHeight > 0) =>
              /\ Dy(rOut) = rHeight
              /\ \E q \in Quotients :
                    /\ RoundsTo(q, rHeight * Dx(rImg), Dy(rImg))
                    /\ Dx(rOut) = Max2(1, q)
        /\ (rWidth > 0 /\ rHeight = 0) =>
              /\ Dx(rOut) = rWidth
              /\ \E q \in Quotients :
                    /\ RoundsTo(q, rWidth * Dy(rImg), Dx(rImg))
                    /\ Dy(rOut) = Max2(1, q)

(* Resize(img, 0, 3) of a 1x2 source: 3*1/2 = 1.5 rounds up to width 2.    *)
C12_Witness ==
    /\ rpc = "done"
    /\ rOp = "Resize"
    /\ Dx(rImg) = 1
    /\ Dy(rImg) = 2
    /\ rWidth = 0
    /\ rHeight = 3
    /\ Dx(rOut) = 2
    /\ Dy(rOut) = 3

(* Rectangle r lies inside rectangle t.                                    *)
RectIn(r, t) ==
    /\ t.minX <= r.minX
    /\ r.maxX <= t.maxX
    /\ t.minY <= r.minY
    /\ r.maxY <= t.maxY

(* C13: for a non-empty source and width, height > 0, Thumbnail returns an *)
(* image of exactly width x height at origin (0, 0); the intermediate      *)
(* resize is at least width wide and height high, and the centred crop     *)
(* rectangle is width x height and lies inside it, so nothing is clipped.  *)
C13_ThumbnailExactSize ==
    (rpc = "done" /\ rOp = "Thumbnail" /\ SrcNonEmpty /\ rWidth > 0 /\ rHeight > 0) =>
        /\ Bounds(rOut) = Rect(0, 0, rWidth, rHeight)
        /\ Dx(rTmp) >= rWidth
        /\ Dy(rTmp) >= rHeight
        /\ Dx(rCrop) = rWidth
        /\ Dy(rCrop) = rHeight
        /\ RectIn(rCrop, Bounds(rTmp))

(* A 4x1 source cut to 1x1: tmp is 4x1 and the crop takes column 2.        *)
C13_Witness ==
    /\ rpc = "done"
    /\ rOp = "Thumbnail"
    /\ Dx(rImg) = MaxSide
    /\ Dy(rImg) = 1
    /\ rWidth = 1
    /\ rHeight = 1
    /\ Dx(rTmp) > rWidth
    /\ rCrop.minX > 0
    /\ Bounds(rOut) = Rect(0, 0, 1, 1)

(* C14: for a non-empty source and maxW, maxH > 0, Fit returns an image of *)
(* size (w, h) with 1 <= w <= maxW, 1 <= h <= maxH, w <= srcW, h <= srcH,  *)
(* also when the truncated proportional dimension is 0.                    *)
C14_FitWithinBox ==
    (rpc = "done" /\ rOp = "Fit" /\ SrcNonEmpty /\ rWidth > 0 /\ rHeight > 0) =>
        /\ 1 <= Dx(rOut)
        /\ Dx(rOut) <= rWidth
        /\ Dx(rOut) <= Dx(rImg)
        /\ 1 <= Dy(rOut)
        /\ Dy(rOut) <= rHeight
        /\ Dy(rOut) <= Dy(rImg)

(* A MaxSide x 1 source fitted into 1 x 1: int(1 * 1/MaxSide) is 0 and the *)
(* returned height is 1.                                                   *)
C14_Witness ==
    /\ rpc = "done"
    /\ rOp = "Fit"
    /\ Dx(rImg) = MaxSide
    /\ Dy(rImg) = 1
    /\ rWidth = 1
    /\ rHeight = 1
    /\ GoDiv(rWidth * Dy(rImg), Dx(rImg)) = 0
    /\ Dx(rOut) = 1
    /\ Dy(rOut) = 1

(* The pixel (x, y), relative to the origin, as its four bytes.            *)
PixelOf(img, x, y) == [ch \in 0..3 |-> ByteAt(img, img.minX + x, img.minY + y, ch)]

(* out has the size of src, starts at (0, 0) and Stride 4 * width, and     *)
(* every pixel of it has the bytes of the pixel of src at the same place.  *)
IsCloneOf(out, src) ==
    /\ Bounds(out) = Rect(0, 0, Dx(src), Dy(src))
    /\ out.stride = 4 * Dx(src)
    /\ Len(out.pix) = 4 * Dx(src) * Dy(src)
    /\ \A x \in 0..(Dx(src) - 1), y \in 0..(Dy(src) - 1) : PixelOf(out, x, y) = PixelOf(src, x, y)

RECURSIVE SumOfSet(_, _)
SumOfSet(S, f) ==
    IF S = {} THEN 0
    ELSE LET e == CHOOSE e \in S : TRUE IN f[e] + SumOfSet(S \ {e}, f)

(* The source indices of an axis that contribute with a non-zero weight to *)
(* destination index d; an axis that keeps its size is not resampled.      *)
Window(srcN, dstN, d) ==
    IF srcN = dstN THEN {d}
    ELSE { x \in WindowStart(srcN, dstN, 1, d)..WindowEnd(srcN, dstN, 1, d) :
              Weight(srcN, dstN, d, x) # 0 }

(* The pixels of the image, relative to its origin.                        *)
PixelsOf(img) == (0..(Dx(img) - 1)) \X (0..(Dy(img) - 1))

TransparentPixels(img) == { q \in PixelsOf(img) : PixelOf(img, q[1], q[2])[3] = 0 }

OpaquePixels(img) == { q \in PixelsOf(img) : PixelOf(img, q[1], q[2])[3] = 255 }

(* C17: Resize with the Box filter of an image with exactly one fully      *)
(* transparent pixel, all others opaque: in every output pixel whose       *)
(* window holds the transparent pixel and at least one opaque pixel, each  *)
(* of R, G and B equals the average of that channel over the opaque        *)
(* pixels of the window only (to within one unit of rounding).             *)
C17_TransparentDoesNotDarken ==
    (ppc = "done" /\ pOp = "Resize" /\ pFilter = "Box"
       /\ Dx(pOut) > 0 /\ Dy(pOut) > 0
       /\ Cardinality(TransparentPixels(pImg)) = 1
       /\ TransparentPixels(pImg) \cup OpaquePixels(pImg) = PixelsOf(pImg)) =>
        \A dx \in 0..(Dx(pOut) - 1), dy \in 0..(Dy(pOut) - 1) :
            LET win == Window(Dx(pImg), Dx(pOut), dx) \X Window(Dy(pImg), Dy(pOut), dy)
                opq == win \cap OpaquePixels(pImg)
            IN  (win \cap TransparentPixels(pImg) # {} /\ opq # {}) =>
                    \A ch \in 0..2 :
                        Abs(Cardinality(opq) * PixelOf(pOut, dx, dy)[ch]
                            - SumOfSet(opq, [q \in opq |-> PixelOf(pImg, q[1], q[2])[ch]]))
                          <= Cardinality(opq)

(* Resize with the Box filter has turned a fully opaque 2x2 image into a   *)
(* 1x1 image.                                                              *)
BoxTwoByTwoToOne ==
    /\ ppc = "done"
    /\ pOp = "Resize"
    /\ pFilter = "Box"
    /\ Dx(pImg) = 2
    /\ Dy(pImg) = 2
    /\ OpaquePixels(pImg) = PixelsOf(pImg)
    /\ Dx(pOut) = 1
    /\ Dy(pOut) = 1

(* Resize with the Box filter has shrunk the x axis by the integer factor  *)
(* k and left the y axis as it was.                                        *)
BoxShrunkBy(k) ==
    /\ ppc = "done"
    /\ pOp = "Resize"
    /\ pFilter = "Box"
    /\ Dx(pOut) > 0
    /\ Dx(pImg) = k * Dx(pOut)
    /\ Dy(pImg) = Dy(pOut)

(* The integer factors by which an axis can shrink.                        *)
Factors == 2..MaxPixels

(* On an axis shrunk by the integer factor k, the window of destination    *)
(* index d has weight 1 on the source samples k*d .. k*d+k-1 and on no     *)
(* other, and the output byte is their average, rounded half up.           *)
IntegerFactorWindows ==
    \A k \in Factors :
        BoxShrunkBy(k) =>
            \A d \in 0..(Dx(pOut) - 1) :
                /\ Window(Dx(pImg), Dx(pOut), d) = (k * d)..(k * d + k - 1)
                /\ \A x \in (k * d)..(k * d + k - 1) : Weight(Dx(pImg), Dx(pOut), d, x) = 1
                /\ \A y \in 0..(Dy(pOut) - 1), ch \in 0..3 :
                      LET win == (k * d)..(k * d + k - 1)
                          total == SumOfSet(win, [x \in win |-> PixelOf(pImg, x, y)[ch]])
                      IN  /\ 2 * k * PixelOf(pOut, d, y)[ch] <= 2 * total + k
                          /\ 2 * total + k < 2 * k * (PixelOf(pOut, d, y)[ch] + 1)

(* The sum of channel ch over the four pixels of the 2x2 source.           *)
SumOfFour(ch) == SumOfSet(PixelsOf(pImg), [q \in PixelsOf(pImg) |-> PixelOf(pImg, q[1], q[2])[ch]])

(* C18, as claimed: Resize with the Box filter of every fully opaque 2x2   *)
(* image to 1x1 yields, per channel, the simple average of the four source *)
(* values rounded to nearest (either way at a tie); and on an axis shrunk  *)
(* by an integer factor k the window of destination index d has unit       *)
(* weight on exactly the source samples k*d .. k*d+k-1.                    *)
C18_SimpleAverageOfFour ==
    /\ BoxTwoByTwoToOne =>
          \A ch \in 0..3 : Abs(4 * PixelOf(pOut, 0, 0)[ch] - SumOfFour(ch)) <= 2
    /\ IntegerFactorWindows

(* a/2 rounded half up.                                                    *)
HalfUp(a) == (a + 1) \div 2

(* C18, amended: Resize with the Box filter of a fully opaque 2x2 image to *)
(* 1x1 yields, per channel, the average (rounded half up) of the two row   *)
(* averages (each rounded half up), which is the simple average of the     *)
(* four values rounded to nearest or one more, and R=128, G=0, B=128,      *)
(* A=255 for the red/blue checkerboard; and on an axis shrunk by an        *)
(* integer factor k the window of destination index d has unit weight on   *)
(* exactly the source samples k*d .. k*d+k-1.                              *)
C18_AverageOfRowAverages ==
    /\ BoxTwoByTwoToOne =>
          /\ \A ch \in 0..3 :
                LET top == HalfUp(PixelOf(pImg, 0, 0)[ch] + PixelOf(pImg, 1, 0)[ch])
                    bottom == HalfUp(PixelOf(pImg, 0, 1)[ch] + PixelOf(pImg, 1, 1)[ch])
                    nearest == (2 * SumOfFour(ch) + 4) \div 8
                IN  /\ PixelOf(pOut, 0, 0)[ch] = HalfUp(top + bottom)
                    /\ PixelOf(pOut, 0, 0)[ch] \in {nearest, nearest + 1}
          /\ (/\ PixelOf(pImg, 0, 0) = PixelOf(pImg, 1, 1)
              /\ PixelOf(pImg, 1, 0) = PixelOf(pImg, 0, 1)
              /\ PixelOf(pImg, 0, 0) # PixelOf(pImg, 1, 0))
                => \A ch \in 0..3 : PixelOf(pOut, 0, 0)[ch] = <<128, 0, 128, 255>>[ch + 1]
    /\ IntegerFactorWindows

(* The red/blue checkerboard resized to 1x1.                               *)
C18_Witness ==
    /\ BoxTwoByTwoToOne
    /\ PixelOf(pImg, 0, 0) = PixelOf(pImg, 1, 1)
    /\ PixelOf(pImg, 1, 0) = PixelOf(pImg, 0, 1)
    /\ PixelOf(pImg, 0, 0) # PixelOf(pImg, 1, 0)
    /\ \A ch \in 0..3 : PixelOf(pOut, 0, 0)[ch] = <<128, 0, 128, 255>>[ch + 1]

(***************************************************************************)
(* The scanner against color.NRGBAModel.Convert(img.At(x, y)).             *)
(***************************************************************************)

(* The four bytes of dst for the pixel at the relative position (x, y) of  *)
(* the scanned rectangle r.                                                *)
DstPixel(buf, r, x, y) ==
    LET j == 4 * ((y - r[2]) * (r[3] - r[1]) + (x - r[1]))
    IN  <<buf[j + 1], buf[j + 2], buf[j + 3], buf[j + 4]>>

(* The relative positions of the scanned rectangle r.                      *)
RelPoints(r) == (r[1] .. r[3] - 1) \X (r[2] .. r[4] - 1)

FullBounds(img) == <<0, 0, img.maxX - img.minX, img.maxY - img.minY>>

(* The samples of the pixel (x, y) are ones img.Set can store: no          *)
(* premultiplied sample above alpha, and a 16-bit alpha that is 0 with no  *)
(* colour or has a non-zero high byte.                                     *)
StorableAt(img, x, y) ==
    LET i == (y - img.minY) * img.stride + (x - img.minX) * BytesPerPixel(img.enc)
        p(k) == img.pix[i + k + 1]
        p16(k) == p(k) * 256 + p(k + 1)
    IN  CASE img.enc = "RGBA" -> p(0) <= p(3) /\ p(1) <= p(3) /\ p(2) <= p(3)
          [] img.enc = "RGBA64" ->
                /\ p16(0) <= p16(6) /\ p16(2) <= p16(6) /\ p16(4) <= p16(6)
                /\ (p16(6) = 0 \/ p(6) > 0)
          [] img.enc = "NRGBA64" ->
                p(6) > 0 \/ (p16(6) = 0 /\ p16(0) = 0 /\ p16(2) = 0 /\ p16(4) = 0)
          [] OTHER -> TRUE

Storable(img) == \A pt \in PointsOf(img) : StorableAt(img, pt[1], pt[2])

(* The encodings whose scan makes the very computation of the conversion.  *)
ExactEncodings == {"NRGBA", "Gray", "Gray16", "Paletted"} \cup GenericEncodings

Within(a, b, tol) == a - b <= tol /\ b - a <= tol

(* C19 as stated: after a scan over the full bounds, the bytes of every    *)
(* pixel are exactly those of color.NRGBAModel.Convert(img.At(x, y)), for  *)
(* every encoding.                                                         *)
C19_ScanEqualsConvert ==
    (spc = "done" /\ sRect = FullBounds(sImg) /\ Storable(sImg)) =>
        \A pt \in RelPoints(sRect) :
            DstPixel(sDst, sRect, pt[1], pt[2])
                = ConvertAt(sImg, sImg.minX + pt[1], sImg.minY + pt[2])

(* C19 amended: after a scan over the full bounds of an image whose        *)
(* samples img.Set can store, every pixel has the alpha byte of            *)
(* color.NRGBAModel.Convert(img.At(x, y)) and R, G, B bytes within 1 of    *)
(* it, in row-major order; the bytes are exactly the same for NRGBA, Gray, *)
(* Gray16, Paletted and the generic fallback.                              *)
C19_ScanNearConvert ==
    (spc = "done" /\ sRect = FullBounds(sImg) /\ Storable(sImg)) =>
        \A pt \in RelPoints(sRect) :
            LET got == DstPixel(sDst, sRect, pt[1], pt[2])
                want == ConvertAt(sImg, sImg.minX + pt[1], sImg.minY + pt[2])
            IN  /\ got[4] = want[4]
                /\ \A k \in 1 .. 3 : Within(got[k], want[k], 1)
                /\ sImg.enc \in ExactEncodings => got = want

(* A full scan of a premultiplied or YCbCr image with several rows and     *)
(* columns, one of whose bytes is 1 away from the conversion's.            *)
C19_Witness ==
    /\ spc = "done" /\ sRect = FullBounds(sImg) /\ Storable(sImg)
    /\ sRect[3] > 1 /\ sRect[4] > 1
    /\ sImg.enc \notin ExactEncodings
    /\ \E pt \in RelPoints(sRect) :
          DstPixel(sDst, sRect, pt[1], pt[2])
              # ConvertAt(sImg, sImg.minX + pt[1], sImg.minY + pt[2])

Returned == rpc \in {"done", "written"}

(* C21: every image returned by Resize, Fit, Thumbnail, Blur, Sharpen,     *)
(* Crop, CropCenter and Clone has bounds whose minimum corner is (0,0),    *)
(* whatever the origin of the input and whatever the return path.          *)
C21_ResultAtOrigin ==
    (Returned /\ rOp \in {"Resize", "Fit", "Thumbnail", "Blur", "Sharpen",
                          "Crop", "CropCenter", "Clone"})
        => rOut.minX = 0 /\ rOut.minY = 0

(* A positive-sigma Blur of a non-empty image whose bounds start at a      *)
(* negative origin has returned.                                           *)
C21_Witness ==
    /\ rpc = "done" /\ rOp = "Blur" /\ rSigma > 0
    /\ rImg.minX < 0 /\ Dx(rOut) > 0 /\ Dy(rOut) > 0
    /\ rOut.minX = 0 /\ rOut.minY = 0

(* C22: Resize returns a new image: the returned image does not share its  *)
(* pixel storage with the input, so a store into the result never reaches  *)
(* the input's buffer.                                                     *)
C22_ResizeReturnsNewImage ==
    (Returned /\ rOp = "Resize") => (rOut.buf # "src" /\ "src" \notin rWritten)

(* C23: no operation mutates its input: when Resize, Blur, Sharpen, Crop,  *)
(* Paste or scan returns, none of its passes has stored into the buffer of *)
(* the caller's image; the stores went to freshly allocated buffers.       *)
C23_InputNotMutated ==
    (rpc = "done" /\ rOp \in {"Resize", "Blur", "Sharpen", "Crop", "Paste", "scan"})
        => "src" \notin rWritten

(* A two-pass Resize that read the caller's buffer directly (an NRGBA      *)
(* image at origin (0,0), not cloned) has returned after storing only into *)
(* new buffers.                                                            *)
C23_Witness ==
    /\ rpc = "done" /\ rOp = "Resize" /\ rSupport2 > 0
    /\ toNRGBA(rImg) = rImg
    /\ Dx(rOut) # Dx(rImg) /\ Dy(rOut) # Dy(rImg) /\ Dx(rOut) > 0
    /\ rWritten = {"new"}

(***************************************************************************)
(* Nearest-neighbour resize.                                               *)
(***************************************************************************)

(* A nearest-neighbour Resize of a non-empty source has returned.          *)
NearDone ==
    /\ ppc = "done" /\ pOp = "Resize" /\ pFilter = "NearestNeighbor"
    /\ pWidth >= 1 /\ pHeight >= 1 /\ Dx(pImg) >= 1 /\ Dy(pImg) >= 1

(* floor((d + 1/2) * srcN / dstN) *)
NearFloor(srcN, dstN, d) == ((2 * d + 1) * srcN) \div (2 * dstN)

(* (d + 1/2) * srcN / dstN is a whole number.                              *)
NearWhole(srcN, dstN, d) == ((2 * d + 1) * srcN) % (2 * dstN) = 0

(* The source indices the claim allows for d: the floor, and the index     *)
(* before it where the quotient is whole and before = TRUE.                *)
NearAllowed(srcN, dstN, d, before) ==
    {NearFloor(srcN, dstN, d)}
        \cup (IF before /\ NearWhole(srcN, dstN, d) /\ NearFloor(srcN, dstN, d) > 0
              THEN {NearFloor(srcN, dstN, d) - 1} ELSE {})

(* The result has the requested size, every pixel of it is a byte-exact    *)
(* copy of a source pixel at an allowed column and row, and the column and *)
(* row the code computes are allowed and lie inside the source.            *)
NearCopies(before) ==
    /\ Bounds(pOut) = Rect(0, 0, pWidth, pHeight)
    /\ LET srcXs == NearestPass(Dx(pImg), pWidth)
       IN  \A dstX \in 0 .. pWidth - 1 :
              /\ srcXs[dstX + 1] \in NearAllowed(Dx(pImg), pWidth, dstX, before)
              /\ srcXs[dstX + 1] \in 0 .. Dx(pImg) - 1
    /\ LET srcYs == NearestPass(Dy(pImg), pHeight)
       IN  \A dstY \in 0 .. pHeight - 1 :
              /\ srcYs[dstY + 1] \in NearAllowed(Dy(pImg), pHeight, dstY, before)
              /\ srcYs[dstY + 1] \in 0 .. Dy(pImg) - 1
    /\ \A dstX \in 0 .. pWidth - 1, dstY \in 0 .. pHeight - 1 :
          \E srcX \in NearAllowed(Dx(pImg), pWidth, dstX, before),
             srcY \in NearAllowed(Dy(pImg), pHeight, dstY, before) :
                PixelOf(pOut, dstX, dstY) = PixelOf(pImg, srcX, srcY)

(* C24 as stated: after a nearest-neighbour Resize with srcW, srcH, dstW,  *)
(* dstH >= 1 every result pixel (dstX, dstY) is a byte-exact copy of the   *)
(* source pixel at column floor((dstX+1/2)*srcW/dstW) and row              *)
(* floor((dstY+1/2)*srcH/dstH), and these indices lie in [0, srcW-1] and   *)
(* [0, srcH-1].                                                            *)
C24_NearestCopiesFloor == NearDone => NearCopies(FALSE)

(* C24, amended: the same, except that where (dstX+1/2)*srcW/dstW or       *)
(* (dstY+1/2)*srcH/dstH is a whole number k the float64 computation may    *)
(* land just below k and the pixel copied is then the one at k - 1; the    *)
(* indices still lie in [0, srcW-1] and [0, srcH-1].                       *)
C24_NearestCopiesFloorOrBefore == NearDone => NearCopies(TRUE)

(* A two-pixel row of different colours at a non-zero origin with padded   *)
(* rows, resized to three pixels: the result is colour 1, colour 2,        *)
(* colour 2.                                                               *)
C24_Witness ==
    /\ NearDone
    /\ Dx(pImg) = 2 /\ Dy(pImg) = 1 /\ pWidth = 3 /\ pHeight = 1
    /\ pImg.minX # 0 /\ pImg.stride > 4 * Dx(pImg)
    /\ PixelOf(pImg, 0, 0) # PixelOf(pImg, 1, 0)
    /\ PixelOf(pOut, 0, 0) = PixelOf(pImg, 0, 0)
    /\ PixelOf(pOut, 1, 0) = PixelOf(pImg, 1, 0)
    /\ PixelOf(pOut, 2, 0) = PixelOf(pImg, 1, 0)

(* A nearest-neighbour Resize of a non-empty source to pWidth x pHeight    *)
(* and the Resize of its result back to the source's size have returned.   *)
TripDone ==
    /\ ppc = "back" /\ pWidth >= 1 /\ pHeight >= 1 /\ Dx(pImg) >= 1 /\ Dy(pImg) >= 1

(* C26: after the round trip W x H -> w x h -> W x H with NearestNeighbor  *)
(* every pixel (x, y) of the result equals the original pixel at the index *)
(* obtained by composing the index maps of the two passes, and when        *)
(* w = k*W and h = k*H for an integer k >= 1 the result reproduces the     *)
(* original image exactly.                                                 *)
C26_NearestRoundTrip ==
    TripDone =>
        LET W == Dx(pImg)
            H == Dy(pImg)
            thereX == NearestPass(W, pWidth)
            thereY == NearestPass(H, pHeight)
            backX == NearestPass(pWidth, W)
            backY == NearestPass(pHeight, H)
        IN  /\ Bounds(pOut) = Rect(0, 0, W, H)
            /\ \A x \in 0 .. W - 1, y \in 0 .. H - 1 :
                  PixelOf(pOut, x, y) =
                      PixelOf(pImg, thereX[backX[x + 1] + 1], thereY[backY[y + 1] + 1])
            /\ (\E k \in 1 .. MaxNear : pWidth = k * W /\ pHeight = k * H)
                  => \A x \in 0 .. W - 1, y \in 0 .. H - 1 :
                        PixelOf(pOut, x, y) = PixelOf(pImg, x, y)

(* A 2x2 source of three colours at a non-zero origin, resized to 4x4 and  *)
(* back, is reproduced.                                                    *)
C26_Witness ==
    /\ TripDone
    /\ Dx(pImg) = 2 /\ Dy(pImg) = 2 /\ pWidth = 4 /\ pHeight = 4
    /\ pImg.minX # 0
    /\ PixelOf(pImg, 0, 0) # PixelOf(pImg, 1, 0)
    /\ PixelOf(pImg, 0, 0) # PixelOf(pImg, 0, 1)
    /\ PixelOf(pImg, 1, 0) # PixelOf(pImg, 0, 1)
    /\ \A x \in 0 .. 1, y \in 0 .. 1 : PixelOf(pOut, x, y) = PixelOf(pImg, x, y)

(***************************************************************************)
(* Sharpen.                                                                *)
(***************************************************************************)

(* C25: for sigma > 0 and every NRGBA input, also one whose Stride is      *)
(* larger than 4*width, Sharpen returns, and every channel of every pixel  *)
(* (x, y) of its result equals 2*src(x,y) - Blur(img, sigma)(x,y) clamped  *)
(* to [0,255], all three images addressed at the same coordinates (x, y).  *)
C25_SharpenIsTwiceMinusBlur ==
    (pOp = "Sharpen" /\ pSigma > 0 /\ ppc \in {"done", "panic"}
        /\ Dx(pImg) >= 1 /\ Dy(pImg) >= 1) =>
        /\ ppc = "done"
        /\ Bounds(pOut) = Rect(0, 0, Dx(pImg), Dy(pImg))
        /\ \E nan \in NaNBytes :
              LET blurred == BlurPix(pImg, pSigma, nan)
              IN  \A x \in 0 .. Dx(pImg) - 1, y \in 0 .. Dy(pImg) - 1, ch \in 0 .. 3 :
                     PixelOf(pOut, x, y)[ch] =
                         ClampByte(2 * PixelOf(pImg, x, y)[ch] - PixelOf(blurred, x, y)[ch])

(***************************************************************************)
(* The filter catalog and the resampling window.                           *)
(***************************************************************************)

(* Resize has read the Support of its filter.                              *)
FilterRead == rpc \in {"nearest", "resample", "window"}

(* The supports that do not depend on the reading of the cubic family.     *)
OtherSupports ==
    /\ rWin.filter \in {"Bartlett", "Lanczos", "Hann", "Hamming", "Blackman", "Welch", "Cosine"}
          => rWin.support2 = 6
    /\ rWin.filter = "Box" => rWin.support2 = 1
    /\ rWin.filter = "Linear" => rWin.support2 = 2
    /\ rWin.filter = "Gaussian" => rWin.support2 = 4
    /\ rWin.filter = "NearestNeighbor" => rWin.support2 = 0

(* C27 as stated: Hermite, MitchellNetravali, CatmullRom and BSpline have  *)
(* support radius 2.0, every windowed-sinc filter 3.0, Box 0.5, Linear     *)
(* 1.0, Gaussian 2.0 and NearestNeighbor 0.                                *)
C27_CubicFamilySupportTwo ==
    FilterRead =>
        /\ rWin.filter \in {"Hermite", "MitchellNetravali", "CatmullRom", "BSpline"}
              => rWin.support2 = 4
        /\ OtherSupports

(* C27, amended: MitchellNetravali, CatmullRom and BSpline have support    *)
(* radius 2.0 and Hermite has 1.0; every windowed-sinc filter has 3.0, Box *)
(* 0.5, Linear 1.0, Gaussian 2.0 and NearestNeighbor 0.                    *)
C27_CatalogSupports ==
    FilterRead =>
        /\ rWin.filter \in {"MitchellNetravali", "CatmullRom", "BSpline"} => rWin.support2 = 4
        /\ rWin.filter = "Hermite" => rWin.support2 = 2
        /\ OtherSupports

(* An upscaling pass with Hermite: its radius is 1 and its weight cache    *)
(* has (1 + 2) * 2 entries.                                                *)
C27_Witness ==
    /\ rpc = "window"
    /\ rWin.filter = "Hermite"
    /\ rWin.support2 = 2
    /\ rWin.axis = "x"
    /\ rWidth > Dx(rImg)
    /\ rWin.len = 6

(* C28: in a resampling pass, for every source size, destination size,     *)
(* filter support and destination coordinate, the clamped window           *)
(* [start, end] is non-empty and inside [0, srcSize-1], and end - start,   *)
(* the largest index used in the weight cache, is smaller than the         *)
(* cache's allocated length int(r+2)*2.                                    *)
C28_WindowInRange ==
    rpc = "window" =>
        /\ rWin.start <= rWin.end
        /\ 0 <= rWin.start
        /\ rWin.end <= PassSrc(rWin.axis) - 1
        /\ rWin.end - rWin.start < rWin.len

(* A downscaling pass over a column from 7 to 2 pixels with a filter of    *)
(* Support 3.0:                                                            *)
(* the window of the last coordinate is cut at the last source index and   *)
(* still has several entries.                                              *)
C28_Witness ==
    /\ rpc = "window"
    /\ rWin.axis = "y"
    /\ Dy(rImg) = 7 /\ rHeight = 2 /\ rWin.support2 = 6
    /\ rWin.d = 1
    /\ rWin.end = 6
    /\ rWin.start = 0
    /\ rWin.len = 26

(***************************************************************************)
(* CropCenter.                                                             *)
(***************************************************************************)

(* CropCenter has returned from a call with positive width and height.     *)
CropDone == ppc = "done" /\ pOp = "CropCenter" /\ pWidth > 0 /\ pHeight > 0

(* The result has size min(width, srcW) x min(height, srcH) and origin     *)
(* (0, 0).                                                                 *)
CropSize ==
    /\ Dx(pOut) = Min2(pWidth, Dx(pImg))
    /\ Dy(pOut) = Min2(pHeight, Dy(pImg))
    /\ pOut.minX = 0
    /\ pOut.minY = 0

(* Where the crop is no larger than the source: the rectangle at           *)
(* (Min.X + srcW/2 - width/2, Min.Y + srcH/2 - height/2) of size           *)
(* width x height is inside the source bounds and the result's pixel       *)
(* (x, y) is the source's pixel at that corner plus (x, y).                *)
CropPixels ==
    LET x0 == pImg.minX + GoDiv(Dx(pImg), 2) - GoDiv(pWidth, 2)
        y0 == pImg.minY + GoDiv(Dy(pImg), 2) - GoDiv(pHeight, 2)
    IN  (pWidth <= Dx(pImg) /\ pHeight <= Dy(pImg)) =>
            /\ pImg.minX <= x0 /\ x0 + pWidth <= pImg.maxX
            /\ pImg.minY <= y0 /\ y0 + pHeight <= pImg.maxY
            /\ \A x \in 0 .. (pWidth - 1), y \in 0 .. (pHeight - 1), ch \in 0 .. 3 :
                  /\ PixOffset(pOut, x, y) + ch + 1 \in DOMAIN pOut.pix
                  /\ ByteAt(pOut, x, y, ch) = ByteAt(pImg, x0 + x, y0 + y, ch)

(* C29 as stated: CropCenter(img, width, height) on a srcW x srcH image    *)
(* with width, height > 0 returns an image of size min(width, srcW) x      *)
(* min(height, srcH) with origin (0, 0), and where width <= srcW and       *)
(* height <= srcH the crop rectangle is inside the source bounds and the   *)
(* result's pixel (x, y) is the source's pixel at (Min.X + srcW/2 -        *)
(* width/2 + x, Min.Y + srcH/2 - height/2 + y), with truncating division.  *)
C29_CropCenterAnySource == CropDone => CropSize /\ CropPixels

(* C29, amended: the same on a source image with srcW > 0 and srcH > 0.    *)
C29_CropCenterNonEmptySource ==
    (CropDone /\ Dx(pImg) > 0 /\ Dy(pImg) > 0) => CropSize /\ CropPixels

(* A 4 x 1 sub-image with origin (-1, 2) and padded rows, cropped to       *)
(* 2 x 1: the result is the two middle pixels, of different colours.       *)
C29_Witness ==
    /\ CropDone
    /\ pImg.minX = -1 /\ pImg.minY = 2
    /\ Dx(pImg) = 4 /\ Dy(pImg) = 1
    /\ pWidth = 2 /\ pHeight = 1
    /\ Dx(pOut) = 2 /\ Dy(pOut) = 1
    /\ ByteAt(pOut, 0, 0, 0) = 255 /\ ByteAt(pOut, 1, 0, 2) = 255
    /\ ByteAt(pImg, 0, 2, 0) = 255 /\ ByteAt(pImg, 1, 2, 2) = 255
    /\ ByteAt(pImg, -1, 2, 3) = 0

(***************************************************************************)
(* Un-premultiplication in scanner.scan.                                   *)
(***************************************************************************)

(* The colour values and the alpha of the scanned pixel as scan reads      *)
(* them: bytes of *image.RGBA, 16-bit values otherwise.                    *)
ScannedValues ==
    IF sImg.enc = "RGBA" THEN sImg.pix
    ELSE IF sImg.enc = "RGBA64"
    THEN [k \in 1 .. 4 |-> sImg.pix[2 * k - 1] * 256 + sImg.pix[2 * k]]
    ELSE ColorRGBA(sImg, 0, 0)

(* scan divides by alpha: the switch on alpha (for *image.RGBA64, on its   *)
(* high byte) takes the default case.                                      *)
Divides ==
    IF sImg.enc = "RGBA" THEN ScannedValues[4] \notin {0, 255}
    ELSE IF sImg.enc = "RGBA64" THEN sImg.pix[7] \notin {0, 255}
    ELSE ScannedValues[4] \notin {0, 65535}

(* C30: un-premultiplication in scanner.scan never overflows or wraps for  *)
(* valid premultiplied input.  For *image.RGBA the product c*0xff in       *)
(* uint16 is the exact product, for every byte c; for *image.RGBA64 and    *)
(* the fallback the product c*0xffff in uint32 is the exact product, for   *)
(* every 16-bit c; and where every colour value is at most alpha, alpha    *)
(* being neither 0 nor the maximum, the quotient (shifted right by 8 for   *)
(* 16-bit values) is at most 255 and is the byte scan stores.              *)
C30_UnpremulNeverWraps ==
    (spc = "done" /\ sImg.enc \in PremulEncodings) =>
        LET v == ScannedValues
            a == v[4]
            max == IF sImg.enc = "RGBA" THEN 255 ELSE 65535
            valid == a \notin {0, max} /\ \A k \in 1 .. 3 : v[k] <= a
        IN  \A k \in 1 .. 3 :
               IF sImg.enc = "RGBA"
               THEN /\ Mul16(v[k], 255) = v[k] * 255
                    /\ (valid /\ Divides) =>
                          /\ (v[k] * 255) \div a <= 255
                          /\ sDst[k] = (v[k] * 255) \div a
               ELSE /\ Mul32(v[k], 65535) = WideMul(v[k], 65535)
                    /\ (valid /\ Divides) =>
                          /\ Quot32Shr8(Mul32(v[k], 65535), a) <= 255
                          /\ sDst[k] = MulDiv(v[k], 65535, a) \div 256

(* An *image.RGBA64 pixel whose colour values equal its alpha 0xfeff: the  *)
(* product is 0xfeff * 0xffff, the quotient 0xffff and the bytes stored    *)
(* are 255.                                                                *)
C30_Witness ==
    /\ spc = "done"
    /\ sImg.enc = "RGBA64"
    /\ ScannedValues = <<65279, 65279, 65279, 65279>>
    /\ Divides
    /\ WideMul(65279, 65535) = [hi |-> 65278, lo |-> 257]
    /\ sDst = <<255, 255, 255, 254>>

====
